---- MODULE Spec2Model ----
(***************************************************************************)
(* Verification model of the chat-export viewer's ingestion core:          *)
(*   - the headless dataset importer  (scripts/shared/datasetImporter.ts)  *)
(*   - the interactive importer       (lib/importer.ts + AppDataContext)   *)
(*   - the conversion helpers         (scripts/shared/slimConvert.ts)      *)
(***************************************************************************)
EXTENDS Integers, Sequences, FiniteSets, TLC

VARIABLES
    target,        \* which importer this run of the model exercises
    disk,          \* headless: conversations.json + conversations/<id>/ (array order)
    localDb,       \* interactive: IndexedDB stores 'index' + 'conversations', keyed by id
    localIndex,    \* interactive: React state localIndex (ids and summaries it knows)
    serverIndex,   \* interactive: React state serverIndex (summaries fetched from the server)
    importing,     \* interactive: React state importing
    job,           \* interactive: the running importZips call (its locals)
    last,          \* history: the latest import run (mode, batch, dataset before, outcome)
    runs,          \* history: number of import runs started
    path,          \* path validator: the string handed to it
    verdict,       \* path validator: what isSafeRelativePath and normalizePath returned
    raw,           \* graph converter: the raw conversation handed to it
    converted,     \* graph converter: what convertRawConversation returned
    archive,       \* asset import: the archive (asset descriptor, entry names, user id)
    assets,        \* asset import: the assets collected, returned, written and stored
    walk,          \* graph converter: the parent-link walk, one loop turn at a time
    stamps,        \* graph converter: the timestamps of a raw conversation and its path
    stamped,       \* graph converter: the last_message_time computed from them
    store,         \* interactive: the IndexedDB stores of conversations and search data
    op,            \* interactive: the database operation in progress and the last one ended
    request,       \* one import request: importer, mode argument, archives, destination
    report,        \* what the run of that request has done and reported so far
    modal,         \* interactive: ImportModal and the state it shows (importing, importProgress)
    jobs,          \* interactive: the importZips calls made so far, each with its position
    worker,        \* search worker: searchData and the indexes built from it
    result,        \* search worker: the response posted for the last search request
    mergedIndex,   \* summary merge: the indexes handed to mergeSummaries and what it returned
    kept,          \* both importers: the payloads kept so far (merged map, or the stores of the browser)
    span,          \* block splitter: the text span handed to splitMarkdownIntoBlocks and its blocks
    segmented,     \* content segmenter: the raw content of a message, its blocks and its details
    extraction,    \* sidecar extractors: the sidecar text, the literal embedded in it and what was extracted
    zips,          \* parseExportZips: its files, listener, counters, merged payloads, notifications and bundle
    assetDb        \* asset stores and url cache: the stores assets and assetOwners, assetUrlCache, the urls created, the calls of getAssetUrl and the waiting transactions

reconciler == <<target, disk, localDb, localIndex, serverIndex, importing, job, last, runs>>

validator == <<path, verdict>>

converter == <<raw, converted>>

assetio == <<archive, assets>>

walker == <<walk>>

stamper == <<stamps, stamped>>

storage == <<store, op>>

runner == <<request, report>>

dialog == <<modal, jobs>>

searcher == <<worker, result>>

merger == <<mergedIndex>>

keeper == <<kept>>

spanner == <<span>>

segmenter == <<segmented>>

extractor == <<extraction>>

parser == <<zips>>

blobber == <<assetDb>>

aside == <<validator, converter, assetio, walker, stamper, storage, runner, dialog, searcher, merger, keeper, spanner, segmenter, extractor, parser, blobber>>

\* what the actions of one part of the model leave alone
besidesWalk == <<reconciler, validator, converter, assetio, stamper, storage, runner, dialog, searcher, merger, keeper, spanner, segmenter, extractor, parser, blobber>>

besidesStamps == <<reconciler, validator, converter, assetio, walker, storage, runner, dialog, searcher, merger, keeper, spanner, segmenter, extractor, parser, blobber>>

besidesStorage == <<reconciler, validator, converter, assetio, walker, stamper, runner, dialog, searcher, merger, keeper, spanner, segmenter, extractor, parser, blobber>>

further == <<walker, stamper, storage, runner, dialog, searcher, merger, keeper, spanner, segmenter, extractor, parser, blobber>>

besidesDialog == <<reconciler, validator, converter, assetio, walker, stamper, storage, runner, searcher, merger, keeper, spanner, segmenter, extractor, parser, blobber>>

besidesSearcher == <<reconciler, validator, converter, assetio, walker, stamper, storage, runner, dialog, merger, keeper, spanner, segmenter, extractor, parser, blobber>>

besidesRunner == <<reconciler, validator, converter, assetio, walker, stamper, storage, dialog, searcher, merger, keeper, spanner, segmenter, extractor, parser, blobber>>

besidesMerger == <<reconciler, validator, converter, assetio, walker, stamper, storage, runner, dialog, searcher, keeper, spanner, segmenter, extractor, parser, blobber>>

besidesKeeper == <<reconciler, validator, converter, assetio, walker, stamper, storage, runner, dialog, searcher, merger, spanner, segmenter, extractor, parser, blobber>>

besidesSpanner == <<reconciler, validator, converter, assetio, walker, stamper, storage, runner, dialog, searcher, merger, keeper, segmenter, extractor, parser, blobber>>

besidesSegmenter == <<reconciler, validator, converter, assetio, walker, stamper, storage, runner, dialog, searcher, merger, keeper, spanner, extractor, parser, blobber>>

besidesExtractor == <<reconciler, validator, converter, assetio, walker, stamper, storage, runner, dialog, searcher, merger, keeper, spanner, segmenter, parser, blobber>>

besidesParser == <<reconciler, validator, converter, assetio, walker, stamper, storage, runner, dialog, searcher, merger, keeper, spanner, segmenter, extractor, blobber>>

besidesBlobber == <<reconciler, validator, converter, assetio, walker, stamper, storage, runner, dialog, searcher, merger, keeper, spanner, segmenter, extractor, parser>>

vars == <<reconciler, aside>>

-----------------------------------------------------------------------------
(* Bounds of the model                                                     *)

MaxRuns == 2          \* import runs per behaviour
MaxBatch == 2         \* conversations per batch (over all its archives)
MaxTime == 2          \* last_message_time values 1..MaxTime
MaxNodes == 2         \* mapping node counts 1..MaxNodes
MaxPathLen == 5       \* characters per path handed to the path validator
MaxGraphNodes == 3    \* nodes in the mapping of a raw conversation
MaxDescriptorLen == 4 \* characters per asset descriptor path in assetsJson
MaxMessages == 2      \* messages with timestamps on a converted path
MaxOps == 3           \* database operations (saves and deletes) per behaviour
MaxArchives == 2      \* archives per import request
MaxJobs == 2          \* importZips calls per behaviour
MaxSaves == 2         \* conversations one importZips call has to save
MaxPayloads == 2      \* conversations in a search bundle
MaxQueryLen == 4      \* characters per search query
MaxIndex == 2         \* summaries per index handed to mergeSummaries
MaxIngests == 3       \* conversations kept per behaviour of the payload model
MaxSpanLen == 6       \* characters per text span handed to the block splitter
MaxParts == 2         \* parts per raw content
MaxNested == 1        \* nested parts per part
MaxStringLen == 1     \* items per string of an embedded literal
MaxElements == 2      \* elements per embedded array
MaxRaw == 2           \* raw conversations per archive handed to parseExportZips
MaxCalls == 2         \* calls of getAssetUrl per page load
MaxQueue == 2         \* transactions waiting on the asset stores

-----------------------------------------------------------------------------
(* Generic helpers                                                         *)

Max(a, b) == IF a >= b THEN a ELSE b
Min(a, b) == IF a <= b THEN a ELSE b

Get(f, k, default) == IF k \in DOMAIN f THEN f[k] ELSE default

Put(f, k, v) == (k :> v) @@ f

EmptyMap == [k \in {} |-> 0]

Range(s) == {s[i] : i \in 1..Len(s)}

RECURSIVE Flatten(_)
Flatten(ss) == IF ss = <<>> THEN <<>> ELSE Head(ss) \o Flatten(Tail(ss))

-----------------------------------------------------------------------------
(* slimConvert.ts: normalizePath, isSafeRelativePath, pathHasTraversal.    *)
(* A string is a sequence of characters over a small alphabet: a letter,   *)
(* the dot, both slashes, the colon and the NUL character.                 *)

Letter == "e"
Dot == "."
Slash == "/"
Backslash == "\\"
Colon == ":"
Nul == "NUL"

Chars == {Letter, Dot, Slash, Backslash, Colon, Nul}

Letters == {Letter}

Strings(n) == UNION { [1..k -> Chars] : k \in 0..n }

\* String.prototype.splitPath('/')
RECURSIVE splitPath(_)
splitPath(s) ==
    IF \A i \in 1..Len(s) : s[i] # Slash THEN <<s>>
    ELSE LET k == CHOOSE i \in 1..Len(s) : s[i] = Slash /\ \A j \in 1..(i - 1) : s[j] # Slash
         IN <<SubSeq(s, 1, k - 1)>> \o splitPath(SubSeq(s, k + 1, Len(s)))

\* Array.prototype.joinPath('/')
RECURSIVE joinPath(_)
joinPath(parts) ==
    IF parts = <<>> THEN <<>>
    ELSE IF Len(parts) = 1 THEN parts[1]
    ELSE parts[1] \o <<Slash>> \o joinPath(Tail(parts))

\* .replace(/\\/g, '/')
ReplaceBackslashes(s) == [i \in 1..Len(s) |-> IF s[i] = Backslash THEN Slash ELSE s[i]]

\* .replace(/^\.\/?/, '')
StripDotSlash(s) ==
    IF s # <<>> /\ s[1] = Dot
    THEN IF Len(s) >= 2 /\ s[2] = Slash THEN SubSeq(s, 3, Len(s)) ELSE Tail(s)
    ELSE s

\* .replace(/^\/+/, '')
RECURSIVE StripLeadingSlashes(_)
StripLeadingSlashes(s) ==
    IF s # <<>> /\ s[1] = Slash THEN StripLeadingSlashes(Tail(s)) ELSE s

\* the loop over parts: empty and '.' parts skipped, '..' pops
RECURSIVE SafeParts(_, _)
SafeParts(parts, safeParts) ==
    IF parts = <<>> THEN safeParts
    ELSE LET part == Head(parts)
         IN IF part = <<>> \/ part = <<Dot>> THEN SafeParts(Tail(parts), safeParts)
            ELSE IF part = <<Dot, Dot>>
            THEN SafeParts(Tail(parts),
                           IF safeParts = <<>> THEN <<>>
                           ELSE SubSeq(safeParts, 1, Len(safeParts) - 1))
            ELSE SafeParts(Tail(parts), Append(safeParts, part))

normalizePath(input) ==
    LET normalized == StripLeadingSlashes(StripDotSlash(ReplaceBackslashes(input)))
    IN joinPath(SafeParts(splitPath(normalized), <<>>))

\* only the last segment compared with '..'
pathHasTraversal_LastOnly(value) == splitPath(value)[Len(splitPath(value))] = <<Dot, Dot>>

pathHasTraversal(value) == \E i \in 1..Len(splitPath(value)) : splitPath(value)[i] = <<Dot, Dot>>

isSafeRelativePath(input) ==
    IF input = <<>> THEN FALSE
    ELSE IF Nul \in Range(input) THEN FALSE
    ELSE IF Backslash \in Range(input) THEN FALSE
    ELSE IF input[1] = Slash THEN FALSE
    ELSE IF Len(input) >= 2 /\ input[1] \in Letters /\ input[2] = Colon THEN FALSE
    ELSE IF pathHasTraversal(input) THEN FALSE
    ELSE Len(normalizePath(input)) > 0

-----------------------------------------------------------------------------
(* slimConvert.ts: convertRawConversation.  The mapping's node ids are     *)
(* 1..MaxGraphNodes and every node's id field is its key; 0 stands for a   *)
(* null or missing reference and MaxGraphNodes + 1 for an id that is not   *)
(* in the mapping.  A node's message is absent or has an author role; its  *)
(* own id is derived from the node's.                                      *)

NodeIds == 1..MaxGraphNodes

NoRef == 0

Refs == 0..(MaxGraphNodes + 1)

Roles == {"user", "assistant"}

RawNodes == [parent : Refs, message : {"none"} \cup Roles]

RawConversations == [current_node : Refs, mapping : [NodeIds -> RawNodes]]

Null == [null |-> TRUE]

Reverse_Kept(s) == s

\* Array.prototype.reverse
Reverse(s) == [i \in 1..Len(s) |-> s[Len(s) + 1 - i]]

\* lines 65-69: the walk from current_node along the parent links
RECURSIVE WalkPath(_, _, _, _)
WalkPath(nodes, cursor, visited, walked) ==
    IF cursor \notin DOMAIN nodes \/ cursor \in visited THEN walked
    ELSE WalkPath(nodes,
                  IF nodes[cursor].parent # NoRef THEN nodes[cursor].parent ELSE NoRef,
                  visited \cup {cursor},
                  Append(walked, cursor))

\* parent.children, the nodes that name `parent` as their parent, filtered
\* to the other nodes with an assistant message
collectAssistantVariants(nodes, id) ==
    IF nodes[id].parent = NoRef \/ nodes[id].parent \notin DOMAIN nodes THEN {}
    ELSE {child \in DOMAIN nodes :
              /\ nodes[child].parent = nodes[id].parent
              /\ child # id
              /\ nodes[child].message = "assistant"}

transformMessage(nodes, id) ==
    [id |-> id,
     role |-> nodes[id].message,
     variants |-> IF nodes[id].message = "assistant"
                  THEN collectAssistantVariants(nodes, id) ELSE {}]

RECURSIVE Messages(_, _)
Messages(nodes, walked) ==
    IF walked = <<>> THEN <<>>
    ELSE IF nodes[Head(walked)].message = "none" THEN Messages(nodes, Tail(walked))
    ELSE <<transformMessage(nodes, Head(walked))>> \o Messages(nodes, Tail(walked))

convertRawConversation(rawConversation) ==
    IF rawConversation.current_node = NoRef THEN Null
    ELSE LET nodes == rawConversation.mapping
             walked == Reverse(WalkPath(nodes, rawConversation.current_node, {}, <<>>))
             messages == Messages(nodes, walked)
         IN IF messages = <<>> THEN Null
            ELSE [messages |-> messages,
                  mappingNodeCount |-> Cardinality(DOMAIN nodes)]

-----------------------------------------------------------------------------
(* Assets of an archive.  Besides the characters above a path may hold the *)
(* words "assets" and "user-1", each kept as one symbol.                   *)

AssetsWord == "assets"
UserWord == "user-1"

Escape == <<Dot, Dot, Slash, Letter>>                 \* "../e"

\* entry names an archive may hold
EntryNames ==
    { Escape,                                         \* "../e"
      <<AssetsWord, Slash, Letter>>,                  \* "assets/e"
      <<UserWord, Slash, Letter>>,                    \* "user-1/e"
      <<Letter, Colon, Slash, Letter>>,               \* "e:/e"
      <<Letter, Colon>> }                             \* "e:"

EntrySets ==
    { {}, {Escape}, {<<AssetsWord, Slash, Letter>>},
      {<<UserWord, Slash, Letter>>, Escape},
      {<<Letter, Colon, Slash, Letter>>}, {<<Letter, Colon>>},
      EntryNames }

\* user.id of tmp/user.json: absent, a user folder, or a crafted value
UserIds == { <<>>, <<UserWord>>, <<Letter, Colon>> }

\* an archive with one conversation whose one message has one asset part;
\* assetsJson maps its pointer to `descriptor` (<<>>: no such entry)
Archives == [descriptor : Strings(MaxDescriptorLen), names : EntrySets, userId : UserIds]

\* a null where a path is expected (a symbol no path holds)
NoPath == <<"null">>

StartsWith(s, prefix) == Len(s) >= Len(prefix) /\ SubSeq(s, 1, Len(prefix)) = prefix

EndsWith(s, suffix) ==
    Len(s) >= Len(suffix) /\ SubSeq(s, Len(s) - Len(suffix) + 1, Len(s)) = suffix

\* String.prototype.indexOf, 1-based; 0 if there is no occurrence
IndexOf(s, sub) ==
    LET at == {i \in 1..(Len(s) - Len(sub) + 1) : SubSeq(s, i, i + Len(sub) - 1) = sub}
    IN IF at = {} THEN 0 ELSE CHOOSE i \in at : \A j \in at : i <= j

\* loadZipArchive / parseExportZips: the entry map, keyed by normalized name
archiveEntries(names) == {normalizePath(name) : name \in names}

\* whether findAssetEntry returns data
findAssetEntry(entries, assetKey) ==
    LET normalized == normalizePath(assetKey)
        trimmed == IF StartsWith(normalized, <<AssetsWord, Slash>>)
                   THEN SubSeq(normalized, 3, Len(normalized)) ELSE normalized
    IN \/ normalized \in entries
       \/ trimmed # normalized /\ trimmed \in entries
       \/ (<<AssetsWord, Slash>> \o normalized) \in entries
       \/ \E key \in entries :
              /\ key # normalized /\ key # trimmed
              /\ \/ EndsWith(key, <<Slash>> \o normalized)
                 \/ EndsWith(key, <<Slash>> \o trimmed)

\* the check of the descriptor dropped
resolveAssetKey_Unchecked(descriptor) ==
    IF descriptor = <<>> THEN NoPath ELSE normalizePath(descriptor)

resolveAssetKey(descriptor) ==
    IF descriptor = <<>> THEN NoPath
    ELSE IF isSafeRelativePath(descriptor) THEN normalizePath(descriptor) ELSE NoPath

\* convertRawConversation, lines 102: assetKeys of the one conversation
assetKeysOf(descriptor) ==
    IF resolveAssetKey(descriptor) = NoPath THEN {} ELSE {resolveAssetKey(descriptor)}

\* exportExtras.ts
normalizeUserFolder(userId, entries) ==
    IF userId # <<>> THEN userId
    ELSE IF \E key \in entries : UserWord \in Range(key) THEN <<UserWord>>
    ELSE NoPath

extractUserPath(rawKey, folderName) ==
    LET normalized == ReplaceBackslashes(rawKey)
        idx == IndexOf(normalized, folderName)
    IN IF idx = 0 THEN NoPath
       ELSE IF ~(idx = 1 \/ normalized[idx - 1] = Slash) THEN NoPath
       ELSE IF Slash \notin Range(SubSeq(normalized, idx, Len(normalized))) THEN NoPath
       ELSE SubSeq(normalized, idx, Len(normalized))

\* the paths of the generated assets
collectGeneratedAssets(entries, userId) ==
    LET folderName == normalizeUserFolder(userId, entries)
    IN IF folderName = NoPath THEN {}
       ELSE {extractUserPath(rawKey, folderName) : rawKey \in entries} \ {NoPath}

\* datasetImporter.ts
ensureGeneratedAssetData(assetsList, entries, assetData) ==
    assetData \cup {p \in assetsList : p # <<>> /\ findAssetEntry(entries, p)}

\* importer.ts: the safety check of the asset key dropped
collectAssetBlobs_Unchecked(assetKeys, entryMap, blobs) ==
    blobs \cup {assetKey \in assetKeys : findAssetEntry(entryMap, assetKey)}

\* importer.ts, lines 211-229
collectAssetBlobs(assetKeys, entryMap, blobs) ==
    blobs \cup {assetKey \in assetKeys :
                    isSafeRelativePath(assetKey) /\ findAssetEntry(entryMap, assetKey)}

\* datasetImporter.ts, lines 144-156
collectAssetData(assetKeys, entries, assetData) ==
    assetData \cup {assetKey \in assetKeys :
                        isSafeRelativePath(assetKey) /\ findAssetEntry(entries, assetKey)}

\* importer.ts
ensureGeneratedAssetBlobs(assetsList, entryMap, blobs) ==
    blobs \cup {p \in assetsList :
                    p # <<>> /\ isSafeRelativePath(p) /\ findAssetEntry(entryMap, p)}

\* path.resolve(rootDir, relativePath) on a POSIX host, as the depth below
\* rootDir after each segment; -1 once the path has left rootDir
RECURSIVE ResolveDepth(_, _)
ResolveDepth(parts, depth) ==
    IF parts = <<>> THEN depth
    ELSE IF depth < 0 THEN depth
    ELSE IF Head(parts) = <<>> \/ Head(parts) = <<Dot>> THEN ResolveDepth(Tail(parts), depth)
    ELSE IF Head(parts) = <<Dot, Dot>> THEN ResolveDepth(Tail(parts), depth - 1)
    ELSE ResolveDepth(Tail(parts), depth + 1)

\* whether safeJoinUnder returns a path
safeJoinUnder(relativePath) ==
    /\ ~StartsWith(relativePath, <<Slash>>)
    /\ ResolveDepth(splitPath(relativePath), 0) >= 0

\* writeDataset, lines 383-395: the files written under assets/
writeAssets(assetData) ==
    {assetKey \in assetData : isSafeRelativePath(assetKey) /\ safeJoinUnder(assetKey)}

-----------------------------------------------------------------------------
(* Conversation ids.  An id string is a stem followed by zero or more      *)
(* "_v<digits>" groups; the stem is the longest prefix not ending in such  *)
(* a group.  Digit groups are kept as digit sequences, so that parsing     *)
(* ("_v02" -> 2) and formatting (3 -> "_v3") are not the identity.         *)

MkId(stem, sfx) == [stem |-> stem, sfx |-> sfx]

RECURSIVE ParseNumber(_)
ParseNumber(ds) ==
    IF ds = <<>> THEN 0
    ELSE 10 * ParseNumber(SubSeq(ds, 1, Len(ds) - 1)) + ds[Len(ds)]

RECURSIVE FormatNumber(_)
FormatNumber(n) ==
    IF n < 10 THEN <<n>> ELSE FormatNumber(n \div 10) \o <<n % 10>>

\* an id without a suffix counted as suffix 0
splitCloneId_FromZero(id) ==
    IF id.sfx = <<>>
    THEN [base |-> id, suffix |-> 0]
    ELSE [base |-> MkId(id.stem, SubSeq(id.sfx, 1, Len(id.sfx) - 1)),
          suffix |-> ParseNumber(id.sfx[Len(id.sfx)])]

\* id.match(/^(.*)_v(\d+)$/): the last "_v<digits>" group, if there is one
splitCloneId(id) ==
    IF id.sfx = <<>>
    THEN [base |-> id, suffix |-> 1]
    ELSE [base |-> MkId(id.stem, SubSeq(id.sfx, 1, Len(id.sfx) - 1)),
          suffix |-> ParseNumber(id.sfx[Len(id.sfx)])]

\* `${base}_v${nextSuffix}`
CandidateId(base, n) == MkId(base.stem, Append(base.sfx, FormatNumber(n)))

-----------------------------------------------------------------------------
(* Imported conversations.  A payload is what the importers keep of one    *)
(* converted conversation: its id (summary.id = conversation.id), the      *)
(* summary's last_message_time, its mappingNodeCount, and `body`, which    *)
(* stands for everything else (title, messages, search lines).             *)

Modes == {"upsert", "replace", "clone"}

IdA == MkId("a", <<>>)
IdB == MkId("b", <<>>)
IdA2 == MkId("a", << <<2>> >>)        \* "a_v2"

Bodies == {"x", "y"}

\* the conversations an archive may hold: id "a" with every time and node
\* count, a second body for "a" at time 1 with 1 node (same id, time and node
\* count, other content), and one conversation for each of the other ids
Convs ==
    { c \in [id : {IdA, IdB, IdA2}, time : 1..MaxTime, nodes : 1..MaxNodes, body : Bodies] :
        /\ c.id # IdA => c.time = 1 /\ c.nodes = 1
        /\ c.body = "y" => c.id = IdA /\ c.time = 1 /\ c.nodes = 1 }

RECURSIVE Splits(_)
Splits(s) ==
    IF s = <<>> THEN {<<>>}
    ELSE UNION { { <<SubSeq(s, 1, k)>> \o rest : rest \in Splits(SubSeq(s, k + 1, Len(s))) }
                 : k \in 1..Len(s) }

\* a batch is an ordered list of archives, each an ordered, non-empty list
\* of conversations
Batches ==
    UNION { UNION { Splits(s) : s \in [1..n -> Convs] } : n \in 1..MaxBatch }

Undefined == [undefined |-> TRUE]

Stored(p) == [id |-> p.id, time |-> p.time, nodes |-> p.nodes, body |-> p.body]

WithOrder(c, n) ==
    [id |-> c.id, time |-> c.time, nodes |-> c.nodes, body |-> c.body, importOrder |-> n]

-----------------------------------------------------------------------------
(* slimConvert.ts: shouldReplace                                           *)

shouldReplace(current, incoming) ==
    IF incoming.time > current.time THEN TRUE
    ELSE IF incoming.time < current.time THEN FALSE
    ELSE IF incoming.nodes > current.nodes THEN TRUE
    ELSE IF incoming.nodes < current.nodes THEN FALSE
    ELSE incoming.importOrder > current.importOrder

(* AppDataContext.tsx: isNewerSummary                                      *)

isNewerSummary(incoming, existing) ==
    IF existing = Undefined THEN TRUE
    ELSE IF incoming.time > existing.time THEN TRUE
    ELSE IF incoming.time = existing.time /\ incoming.nodes > existing.nodes THEN TRUE
    ELSE FALSE

-----------------------------------------------------------------------------
(* Clone-mode id assignment (both copies)                                  *)

RECURSIVE buildCloneTracker(_)
buildCloneTracker(ids) ==
    IF ids = {} THEN EmptyMap
    ELSE LET id == CHOOSE x \in ids : TRUE
             tracker == buildCloneTracker(ids \ {id})
             split == splitCloneId(id)
             current == Get(tracker, split.base, 0)
         IN IF split.suffix > current THEN Put(tracker, split.base, split.suffix)
            ELSE tracker

\* while (merged.has(candidate)) { nextSuffix += 1 }
RECURSIVE FirstFreeSuffix(_, _, _)
FirstFreeSuffix(base, nextSuffix, used) ==
    IF CandidateId(base, nextSuffix) \in used
    THEN FirstFreeSuffix(base, nextSuffix + 1, used)
    ELSE nextSuffix

clonePayloadWithId(payload, newId) == [payload EXCEPT !.id = newId]

\* the suffix appended to the whole original id instead of its base
ensureClonePayloadId_OnOriginalId(payload, mergedIds, tracker) ==
    LET originalId == payload.id
        split == splitCloneId(originalId)
    IN IF originalId \notin mergedIds
       THEN [payload |-> payload,
             tracker |-> IF split.suffix > Get(tracker, split.base, 0)
                         THEN Put(tracker, split.base, split.suffix)
                         ELSE tracker]
       ELSE LET start == Max(Get(tracker, split.base, split.suffix), split.suffix) + 1
                nextSuffix == FirstFreeSuffix(originalId, start, mergedIds)
            IN [payload |-> clonePayloadWithId(payload, CandidateId(originalId, nextSuffix)),
                tracker |-> Put(tracker, split.base, nextSuffix)]

\* datasetImporter.ts; `merged` is given by its key set
ensureClonePayloadId(payload, mergedIds, tracker) ==
    LET originalId == payload.id
        split == splitCloneId(originalId)
    IN IF originalId \notin mergedIds
       THEN [payload |-> payload,
             tracker |-> IF split.suffix > Get(tracker, split.base, 0)
                         THEN Put(tracker, split.base, split.suffix)
                         ELSE tracker]
       ELSE LET start == Max(Get(tracker, split.base, split.suffix), split.suffix) + 1
                nextSuffix == FirstFreeSuffix(split.base, start, mergedIds)
            IN [payload |-> clonePayloadWithId(payload, CandidateId(split.base, nextSuffix)),
                tracker |-> Put(tracker, split.base, nextSuffix)]

\* AppDataContext.tsx; also records the id it hands out in usedIds
ensureClonePayloadIdForLocal(payload, usedIds, tracker) ==
    LET originalId == payload.id
        split == splitCloneId(originalId)
    IN IF originalId \notin usedIds
       THEN [payload |-> payload,
             usedIds |-> usedIds \cup {originalId},
             tracker |-> IF split.suffix > Get(tracker, split.base, 0)
                         THEN Put(tracker, split.base, split.suffix)
                         ELSE tracker]
       ELSE LET start == Max(Get(tracker, split.base, split.suffix), split.suffix) + 1
                nextSuffix == FirstFreeSuffix(split.base, start, usedIds)
                candidate == CandidateId(split.base, nextSuffix)
            IN [payload |-> clonePayloadWithId(payload, candidate),
                usedIds |-> usedIds \cup {candidate},
                tracker |-> Put(tracker, split.base, nextSuffix)]

-----------------------------------------------------------------------------
(* A Map keyed by conversation id, in insertion order (merged)             *)

Keys(merged) == {merged[i].id : i \in 1..Len(merged)}

MapGet(merged, id) ==
    IF id \in Keys(merged)
    THEN merged[CHOOSE i \in 1..Len(merged) : merged[i].id = id]
    ELSE Undefined

\* a list push instead of a keyed set
MapSet_Push(merged, payload) == Append(merged, payload)

\* Map.set: an existing key keeps its position
MapSet(merged, payload) ==
    IF payload.id \in Keys(merged)
    THEN [i \in 1..Len(merged) |-> IF merged[i].id = payload.id THEN payload ELSE merged[i]]
    ELSE Append(merged, payload)

-----------------------------------------------------------------------------
(* datasetImporter.ts: importDatasets                                      *)

\* the existing dataset loaded in every mode
LoadExisting_AnyMode(existing, mode) ==
    [i \in 1..Len(existing) |-> [id |-> existing[i].id, time |-> existing[i].time,
                                  nodes |-> existing[i].nodes, body |-> existing[i].body,
                                  importOrder |-> i - 1]]

\* lines 81-85: the existing dataset enters merged with importOrder 0, 1, ...
LoadExisting(existing, mode) ==
    IF mode \in {"upsert", "clone"}
    THEN [i \in 1..Len(existing) |-> WithOrder(existing[i], i - 1)]
    ELSE <<>>

\* lines 126-143: one converted conversation of one source
ImportOne(st, conv, mode) ==
    LET incoming == WithOrder(conv, st.importOrder)
    IN IF mode = "clone"
       THEN LET r == ensureClonePayloadId(incoming, Keys(st.merged), st.tracker)
            IN [merged |-> MapSet(st.merged, r.payload),
                tracker |-> r.tracker,
                importOrder |-> st.importOrder + 1,
                log |-> Append(st.log, [orig |-> conv.id, new |-> r.payload.id,
                                        conv |-> Stored(conv), seen |-> Keys(st.merged),
                                        before |-> st.tracker, after |-> r.tracker])]
       ELSE LET existing == MapGet(st.merged, conv.id)
            IN [merged |-> IF existing = Undefined \/ shouldReplace(existing, incoming)
                           THEN MapSet(st.merged, incoming) ELSE st.merged,
                tracker |-> st.tracker,
                importOrder |-> st.importOrder + 1,
                log |-> st.log]

RECURSIVE ImportAll(_, _, _)
ImportAll(st, convs, mode) ==
    IF convs = <<>> THEN st
    ELSE ImportAll(ImportOne(st, Head(convs), mode), Tail(convs), mode)

\* the whole run up to writeDataset: the final merged map and the clone log
importDatasets(existing, mode, batch) ==
    LET merged0 == LoadExisting(existing, mode)
        st0 == [merged |-> merged0,
                tracker |-> IF mode = "clone" THEN buildCloneTracker(Keys(merged0)) ELSE EmptyMap,
                importOrder |-> Len(merged0),
                log |-> <<>>]
    IN ImportAll(st0, Flatten(batch), mode)

\* writeDataset lines 366-380: the conversations directory is cleared and
\* every payload of merged is written
writeDataset(merged) == [i \in 1..Len(merged) |-> Stored(merged[i])]

-----------------------------------------------------------------------------
(* importer.ts: parseExportZips, lines 185-198 and 250-256: the archives'  *)
(* conversations merged by id, newest first in the order of shouldReplace  *)

ParseOne(st, conv) ==
    LET payload == WithOrder(conv, st.order)
        existing == MapGet(st.merged, conv.id)
    IN [merged |-> IF existing = Undefined \/ shouldReplace(existing, payload)
                   THEN MapSet(st.merged, payload) ELSE st.merged,
        order |-> st.order + 1]

RECURSIVE ParseAll(_, _)
ParseAll(st, convs) ==
    IF convs = <<>> THEN st ELSE ParseAll(ParseOne(st, Head(convs)), Tail(convs))

parseExportZips(files) == ParseAll([merged |-> <<>>, order |-> 0], Flatten(files)).merged

-----------------------------------------------------------------------------
(* AppDataContext.tsx: importZips, lines 408-422: what is to be saved      *)

RECURSIVE CloneAll(_, _)
CloneAll(st, payloads) ==
    IF payloads = <<>> THEN st
    ELSE LET r == ensureClonePayloadIdForLocal(Head(payloads), st.usedIds, st.tracker)
         IN CloneAll([out |-> Append(st.out, r.payload),
                      usedIds |-> r.usedIds,
                      tracker |-> r.tracker,
                      log |-> Append(st.log, [orig |-> Head(payloads).id, new |-> r.payload.id,
                                              conv |-> Stored(Head(payloads)),
                                              seen |-> st.usedIds,
                                              before |-> st.tracker, after |-> r.tracker])],
                     Tail(payloads))

RECURSIVE FilterNewer(_, _)
FilterNewer(payloads, existingLocalMap) ==
    IF payloads = <<>> THEN <<>>
    ELSE LET p == Head(payloads)
             rest == FilterNewer(Tail(payloads), existingLocalMap)
         IN IF isNewerSummary(p, Get(existingLocalMap, p.id, Undefined))
            THEN <<p>> \o rest ELSE rest

conversationsToProcess(bundle, mode, baselineLocalIndex, serverIds) ==
    LET usedConversationIds == serverIds \cup DOMAIN baselineLocalIndex
    IN IF mode = "clone"
       THEN LET r == CloneAll([out |-> <<>>, usedIds |-> usedConversationIds,
                               tracker |-> buildCloneTracker(usedConversationIds),
                               log |-> <<>>], bundle)
            IN [todo |-> r.out, log |-> r.log]
       ELSE [todo |-> FilterNewer(bundle, baselineLocalIndex), log |-> <<>>]

-----------------------------------------------------------------------------
(* The stored dataset, as a map from id to stored conversation             *)

AsMap(seq) == [id \in Keys(seq) |-> Stored(MapGet(seq, id))]

Dataset == IF target = "headless" THEN AsMap(disk) ELSE localDb

\* result.conversations / the length of conversations.json; the number of
\* records in the 'conversations' store
ConversationCount ==
    IF target = "headless" THEN Len(disk) ELSE Cardinality(DOMAIN localDb)

-----------------------------------------------------------------------------
(* Actions                                                                 *)

NoJob == [pc |-> "idle"]
NoRun == [mode |-> "none"]
NoVerdict == [checked |-> FALSE]
NoGraph == [current_node |-> 0, mapping |-> <<>>]
NotConverted == [done |-> FALSE]
NoArchive == [descriptor |-> <<>>, names |-> {}, userId |-> <<>>]
NoAssets == [phase |-> "none"]
NoWalk == [pc |-> "idle"]
NoStamps == [update_time |-> <<>>, create_time |-> <<>>, messages |-> <<>>]
NotStamped == [done |-> FALSE]
EmptyStore ==
    [conversations |-> EmptyMap, searchLines |-> EmptyMap,
     searchMembership |-> EmptyMap, searchIndex |-> EmptyMap]
NoOp == [pc |-> "idle", count |-> 0, failures |-> 0, last |-> [kind |-> "none"]]
NoRequest == [target |-> "none"]
NoReport == [pc |-> "idle"]
NoModal == [open |-> FALSE]
NoWorker == [ready |-> FALSE, postings |-> <<>>, lineBuckets |-> <<>>, blockBuckets |-> <<>>]
NoResult == [pc |-> "none"]
NoMerge == [pc |-> "none"]
NoKept == [pc |-> "none"]
NoSpan == [pc |-> "none"]
NoSegments == [pc |-> "none"]
NoExtraction == [pc |-> "none"]
NoZips == [pc |-> "none"]
NoAssetDb == [assets |-> [key \in {"k1", "k2"} |-> 0], assetOwners |-> {}, assetUrlCache |-> [key \in {"k1", "k2"} |-> 0], urls |-> <<>>, calls |-> <<>>, queue |-> <<>>, last |-> [type |-> "none", shared |-> FALSE]]

\* the parts of the model a specification does not exercise stay at rest
AtRest ==
    /\ walk = NoWalk
    /\ stamps = NoStamps
    /\ stamped = NotStamped
    /\ store = EmptyStore
    /\ op = NoOp
    /\ request = NoRequest
    /\ report = NoReport
    /\ modal = NoModal
    /\ jobs = <<>>
    /\ worker = NoWorker
    /\ result = NoResult
    /\ mergedIndex = NoMerge
    /\ kept = NoKept
    /\ span = NoSpan
    /\ segmented = NoSegments
    /\ extraction = NoExtraction
    /\ zips = NoZips
    /\ assetDb = NoAssetDb

Repeats(batch) ==
    IF last.mode # "none" /\ last.outcome = "complete" /\ last.batch = batch
    THEN [mode |-> last.mode, fromEmpty |-> DOMAIN last.before = {}]
    ELSE NoRun

Init ==
    /\ target \in {"headless", "browser"}
    /\ disk = <<>>
    /\ localDb = EmptyMap
    /\ localIndex = EmptyMap
    /\ serverIndex \in IF target = "browser" THEN {{}, {IdB}} ELSE {{}}
    /\ importing = FALSE
    /\ job = NoJob
    /\ last = NoRun
    /\ runs = 0
    /\ path = <<>>
    /\ verdict = NoVerdict
    /\ raw = NoGraph
    /\ converted = NotConverted
    /\ archive = NoArchive
    /\ assets = NoAssets
    /\ AtRest

\* node scripts/import-dataset.ts: one run of importDatasets
HeadlessImport(mode, batch) ==
    /\ target = "headless"
    /\ runs < MaxRuns
    /\ LET r == importDatasets(disk, mode, batch)
       IN /\ disk' = writeDataset(r.merged)
          /\ last' = [mode |-> mode, batch |-> batch, before |-> AsMap(disk),
                      existing |-> disk, index |-> AsMap(disk),
                      beforeCount |-> ConversationCount,
                      outcome |-> "complete", log |-> r.log, repeats |-> Repeats(batch)]
    /\ runs' = runs + 1
    /\ UNCHANGED <<target, localDb, localIndex, serverIndex, importing, job, aside>>

\* importZips lines 338-472: the job starts, replace mode purges the
\* database, the archives are parsed and the conversations to save chosen
ImportZipsBegin(mode, files) ==
    /\ target = "browser"
    /\ runs < MaxRuns
    /\ ~importing
    /\ job.pc = "idle"
    /\ LET baseline == IF mode = "replace" THEN EmptyMap ELSE localIndex
           plan == conversationsToProcess(parseExportZips(files), mode, baseline,
                                          serverIndex)
           started == [mode |-> mode, batch |-> files, before |-> localDb,
                       existing |-> <<>>, index |-> baseline,
                       beforeCount |-> ConversationCount,
                       outcome |-> "running", log |-> plan.log,
                       repeats |-> Repeats(files)]
       IN /\ localDb' = IF mode = "replace" THEN EmptyMap ELSE localDb
          /\ localIndex' = IF mode = "replace" THEN EmptyMap ELSE localIndex
          /\ IF plan.todo = <<>>
             THEN \* lines 423-441: nothing new, the job ends at once
                  /\ importing' = FALSE
                  /\ job' = NoJob
                  /\ last' = [started EXCEPT !.outcome = "complete"]
             ELSE /\ importing' = TRUE
                  /\ job' = [pc |-> "saving", todo |-> plan.todo]
                  /\ last' = started
    /\ runs' = runs + 1
    /\ UNCHANGED <<target, disk, serverIndex, aside>>

\* lines 476-513: one turn of the save loop (saveConversationRecord puts the
\* summary and the conversation under payload.conversation.id)
ImportZipsSave ==
    /\ job.pc = "saving"
    /\ job.todo # <<>>
    /\ localDb' = Put(localDb, Head(job.todo).id, Stored(Head(job.todo)))
    /\ job' = [job EXCEPT !.todo = Tail(job.todo)]
    /\ UNCHANGED <<target, disk, localIndex, serverIndex, importing, last, runs, aside>>

\* lines 521-542 and 551-553: updateLocalIndex reloads localIndex from the
\* database, the job completes
ImportZipsFinish ==
    /\ job.pc = "saving"
    /\ job.todo = <<>>
    /\ localIndex' = localDb
    /\ importing' = FALSE
    /\ job' = NoJob
    /\ last' = [last EXCEPT !.outcome = "complete"]
    /\ UNCHANGED <<target, disk, localDb, serverIndex, runs, aside>>

\* lines 543-553: a database write throws (quota, blocked storage); catch
\* reports the error, finally clears importing; localIndex is not reloaded
ImportZipsFail ==
    /\ job.pc = "saving"
    /\ importing' = FALSE
    /\ job' = NoJob
    /\ last' = [last EXCEPT !.outcome = "error"]
    /\ UNCHANGED <<target, disk, localDb, localIndex, serverIndex, runs, aside>>

Next ==
    \/ \E mode \in Modes, batch \in Batches : HeadlessImport(mode, batch)
    \/ \E mode \in Modes, files \in Batches : ImportZipsBegin(mode, files)
    \/ ImportZipsSave
    \/ ImportZipsFinish
    \/ ImportZipsFail

Spec == Init /\ [][Next]_vars

-----------------------------------------------------------------------------
(* The path validator on its own: a path is handed to isSafeRelativePath   *)
(* and normalizePath.                                                      *)

Idle ==
    /\ target = "none"
    /\ disk = <<>>
    /\ localDb = EmptyMap
    /\ localIndex = EmptyMap
    /\ serverIndex = {}
    /\ importing = FALSE
    /\ job = NoJob
    /\ last = NoRun
    /\ runs = 0

InitPath ==
    /\ Idle
    /\ path \in Strings(MaxPathLen)
    /\ verdict = NoVerdict
    /\ raw = NoGraph
    /\ converted = NotConverted
    /\ archive = NoArchive
    /\ assets = NoAssets
    /\ archive = NoArchive
    /\ assets = NoAssets
    /\ AtRest

CheckPath ==
    /\ ~verdict.checked
    /\ verdict' = [checked |-> TRUE,
                   safe |-> isSafeRelativePath(path),
                   normalized |-> normalizePath(path)]
    /\ UNCHANGED <<reconciler, path, converter, assetio, further>>

NextPath == CheckPath

SpecPath == InitPath /\ [][NextPath]_vars

-----------------------------------------------------------------------------
(* The graph converter on its own: a raw conversation is converted.        *)

InitConvert ==
    /\ Idle
    /\ path = <<>>
    /\ verdict = NoVerdict
    /\ raw \in RawConversations
    /\ converted = NotConverted
    /\ archive = NoArchive
    /\ assets = NoAssets
    /\ AtRest

Convert ==
    /\ ~converted.done
    /\ converted' = [done |-> TRUE, result |-> convertRawConversation(raw)]
    /\ UNCHANGED <<reconciler, validator, raw, assetio, further>>

NextConvert == Convert

SpecConvert == InitConvert /\ [][NextConvert]_vars

-----------------------------------------------------------------------------
(* The assets of one import into an empty destination: one archive with    *)
(* one conversation that refers to one asset.                              *)

InitAssets ==
    /\ target \in {"headless", "browser"}
    /\ disk = <<>>
    /\ localDb = EmptyMap
    /\ localIndex = EmptyMap
    /\ serverIndex = {}
    /\ importing = FALSE
    /\ job = NoJob
    /\ last = NoRun
    /\ runs = 0
    /\ path = <<>>
    /\ verdict = NoVerdict
    /\ raw = NoGraph
    /\ converted = NotConverted
    /\ archive \in Archives
    /\ assets = NoAssets
    /\ AtRest

\* importDatasets: assetData is filled from the archive, writeDataset writes
\* the files, the counts are returned
HeadlessAssets ==
    /\ target = "headless"
    /\ assets.phase = "none"
    /\ LET entries == archiveEntries(archive.names)
           userAssets == collectGeneratedAssets(entries, archive.userId)
           generated == ensureGeneratedAssetData(userAssets, entries, {})
           assetData == collectAssetData(assetKeysOf(archive.descriptor), entries, generated)
       IN assets' = [phase |-> "written",
                     generated |-> userAssets,
                     written |-> writeAssets(assetData),
                     result |-> [conversations |-> 1, assets |-> Cardinality(assetData)]]
    /\ UNCHANGED <<reconciler, validator, converter, archive, further>>

\* parseExportZips: the bundle's assets map
BrowserParseAssets ==
    /\ target = "browser"
    /\ assets.phase = "none"
    /\ LET entryMap == archiveEntries(archive.names) \ {<<>>}
           userAssets == collectGeneratedAssets(entryMap, archive.userId)
           generated == ensureGeneratedAssetBlobs(userAssets, entryMap, {})
           blobs == collectAssetBlobs(assetKeysOf(archive.descriptor), entryMap, generated)
       IN assets' = [phase |-> "parsed",
                     generated |-> userAssets,
                     assetKeys |-> assetKeysOf(archive.descriptor),
                     bundle |-> [conversations |-> 1, assets |-> blobs],
                     stored |-> {}]
    /\ UNCHANGED <<reconciler, validator, converter, archive, further>>

\* importZips, lines 486-520: saveAsset for the conversation's asset keys
\* and the generated assets that have a blob in the bundle
BrowserSaveAssets ==
    /\ target = "browser"
    /\ assets.phase = "parsed"
    /\ assets' = [assets EXCEPT
                      !.phase = "saved",
                      !.stored = (assets.assetKeys \cup assets.generated)
                                     \cap assets.bundle.assets]
    /\ UNCHANGED <<reconciler, validator, converter, archive, further>>

NextAssets ==
    \/ HeadlessAssets
    \/ BrowserParseAssets
    \/ BrowserSaveAssets

SpecAssets == InitAssets /\ [][NextAssets]_vars

-----------------------------------------------------------------------------
(* Properties.  `last` describes the latest import run: the dataset        *)
(* before it, its batch, mode and outcome.                                 *)

Completed(mode) == last.mode = mode /\ last.outcome = "complete"

BatchIds(batch) == {c.id : c \in Range(Flatten(batch))}

\* the stored conversation with this id, if any, followed by the batch's
\* conversations with this id in ingestion order
Candidates(id) ==
    (IF id \in DOMAIN last.before THEN <<last.before[id]>> ELSE <<>>)
        \o SelectSeq(Flatten(last.batch), LAMBDA c : c.id = id)

\* the documented total order: later last-message time, then larger node
\* count, then later ingestion
Newer(c, i, d, j) ==
    \/ c.time > d.time
    \/ c.time = d.time /\ c.nodes > d.nodes
    \/ c.time = d.time /\ c.nodes = d.nodes /\ i > j

Newest(cs) ==
    cs[CHOOSE i \in 1..Len(cs) : \A j \in 1..Len(cs) : j # i => Newer(cs[i], i, cs[j], j)]

\* C1: after an upsert import the dataset holds, for every id stored before
\* or present in the batch, the newest of the stored and the incoming
\* conversations with that id under the order (last-message time, node
\* count, ingestion order): an id without a stored match is added, a stored
\* conversation is replaced only by a strictly newer one -- in the headless
\* and in the interactive importer alike.
C1_UpsertNewestWins ==
    Completed("upsert") =>
        /\ DOMAIN Dataset = DOMAIN last.before \cup BatchIds(last.batch)
        /\ \A id \in DOMAIN Dataset : Dataset[id] = Stored(Newest(Candidates(id)))

\* C2: an upsert import that repeats the batch of the completed upsert
\* import before it leaves the set of conversation ids and the conversation
\* count as they were.
C2_UpsertIdempotent ==
    (Completed("upsert") /\ last.repeats.mode = "upsert") =>
        /\ DOMAIN Dataset = DOMAIN last.before
        /\ ConversationCount = last.beforeCount

C2_Witness ==
    /\ Completed("upsert")
    /\ last.repeats.mode = "upsert"
    /\ Cardinality(BatchIds(last.batch)) = 2
    /\ ConversationCount = 2

\* C3: after a replace import the dataset is exactly the batch: its ids are
\* the batch's ids, each stored conversation is the batch's newest one with
\* that id, whatever was stored before and however it compares.
C3_ReplaceIsBatch ==
    Completed("replace") =>
        /\ DOMAIN Dataset = BatchIds(last.batch)
        /\ ConversationCount = Cardinality(BatchIds(last.batch))
        /\ \A id \in DOMAIN Dataset :
               Dataset[id] =
                   Stored(Newest(SelectSeq(Flatten(last.batch), LAMBDA c : c.id = id)))

\* a replace import over a dataset that held another id and a newer
\* conversation with the batch's id
C3_Witness ==
    /\ Completed("replace")
    /\ \E id \in DOMAIN last.before : id \notin BatchIds(last.batch)
    /\ \E id \in DOMAIN last.before \cap DOMAIN Dataset :
           Newer(last.before[id], 0, Dataset[id], 0)

\* C4: a clone import never overwrites or removes a stored conversation;
\* once it completes, every incoming conversation is stored, under its own
\* id if that id was not known, and under a suffixed copy of it otherwise.
C4_CloneKeepsStored ==
    last.mode = "clone" =>
        /\ \A id \in DOMAIN last.before :
               id \in DOMAIN Dataset /\ Dataset[id] = last.before[id]
        /\ last.outcome = "complete" =>
               \A i \in 1..Len(last.log) :
                   LET e == last.log[i]
                       known == DOMAIN last.before \cup serverIndex
                                    \cup {last.log[j].new : j \in 1..(i - 1)}
                   IN /\ e.new \in DOMAIN Dataset
                      /\ Dataset[e.new] = [e.conv EXCEPT !.id = e.new]
                      /\ IF e.orig \in known
                         THEN /\ e.new # e.orig
                              /\ e.new.sfx # <<>>
                              /\ splitCloneId(e.new).base = splitCloneId(e.orig).base
                         ELSE e.new = e.orig

\* the trailing "_v<digits>" group of an id read as a number (1 if there is
\* none), and the id without that group
SuffixOf(id) == IF id.sfx = <<>> THEN 1 ELSE ParseNumber(id.sfx[Len(id.sfx)])

BaseOf(id) ==
    IF id.sfx = <<>> THEN id ELSE MkId(id.stem, SubSeq(id.sfx, 1, Len(id.sfx) - 1))

HighestSeen(base, seen) ==
    LET suffixes == {SuffixOf(x) : x \in {y \in seen : BaseOf(y) = base}}
    IN CHOOSE n \in suffixes : \A m \in suffixes : m <= n

\* C5: in clone mode an incoming conversation whose id is already known
\* gets the id <base>_v<n>, base being its id without a trailing _v<digits>
\* and n one more than the highest suffix known for that base (stored ids
\* and ids handed out earlier in the run, an unsuffixed id counting as 1);
\* the per-base counter takes the value n and never decreases.
C5_CloneNextSuffix ==
    last.mode = "clone" =>
        \A i \in 1..Len(last.log) :
            LET e == last.log[i]
                base == BaseOf(e.orig)
                n == HighestSeen(base, e.seen) + 1
            IN /\ e.orig \in e.seen =>
                      /\ e.new = MkId(base.stem, Append(base.sfx, FormatNumber(n)))
                      /\ e.after[base] = n
               /\ \A b \in DOMAIN e.before :
                      b \in DOMAIN e.after /\ e.after[b] >= e.before[b]
               /\ i > 1 => e.before = last.log[i - 1].after

\* a known id that carries a suffix itself is cloned, and a copy gets a
\* suffix of 3 or more
C5_Witness ==
    /\ last.mode = "clone"
    /\ \E i \in 1..Len(last.log) :
           /\ last.log[i].orig \in last.log[i].seen
           /\ last.log[i].orig.sfx # <<>>
    /\ \E i \in 1..Len(last.log) :
           /\ last.log[i].orig \in last.log[i].seen
           /\ last.log[i].orig.sfx = <<>>
           /\ SuffixOf(last.log[i].new) >= 3

CloneTwice ==
    /\ Completed("clone")
    /\ last.repeats = [mode |-> "clone", fromEmpty |-> TRUE]

UniqueIds ==
    /\ \A i, j \in 1..Len(disk) : disk[i].id = disk[j].id => i = j
    /\ \A i, j \in 1..Len(last.log) : last.log[i].new = last.log[j].new => i = j

Rearrangements(batch) ==
    LET convs == Flatten(batch)
        n == Len(convs)
        orders == {p \in [1..n -> 1..n] : \A i, j \in 1..n : p[i] = p[j] => i = j}
    IN UNION { Splits([i \in 1..n |-> convs[p[i]]]) : p \in orders }

RECURSIVE SaveAll(_, _)
SaveAll(db, todo) ==
    IF todo = <<>> THEN db
    ELSE SaveAll(Put(db, Head(todo).id, Stored(Head(todo))), Tail(todo))

\* the dataset a completed import of `batch` leaves, started where the
\* latest run started
Outcome(mode, batch) ==
    IF target = "headless"
    THEN AsMap(writeDataset(importDatasets(last.existing, mode, batch).merged))
    ELSE SaveAll(IF mode = "replace" THEN EmptyMap ELSE last.before,
                 conversationsToProcess(parseExportZips(batch), mode, last.index,
                                        serverIndex).todo)

\* no two different conversations of the batch agree on id, last-message
\* time and node count
NoTies(batch) ==
    \A c, d \in Range(Flatten(batch)) :
        (c.id = d.id /\ c.time = d.time /\ c.nodes = d.nodes) => c = d

\* C7: the dataset after an import does not depend on the order of the
\* batch's archives or on how its conversations are split over archives, in
\* every import mode, clone included (for batches in which conversations
\* that share an id differ in last-message time or node count, so that the
\* newer-wins comparison never falls back on ingestion order).
C7_BatchOrderIndependent ==
    (last.mode # "none" /\ last.outcome = "complete" /\ NoTies(last.batch)) =>
        \A batch \in Rearrangements(last.batch) : Outcome(last.mode, batch) = Dataset

\* the segments of a path, read off the positions of its slashes: s[i..j]
\* is a segment if it holds no slash and is bounded by slashes or the ends
IsSegment(s, i, j) ==
    /\ 1 <= i /\ i <= j + 1 /\ j <= Len(s)
    /\ i = 1 \/ s[i - 1] = Slash
    /\ j = Len(s) \/ s[j + 1] = Slash
    /\ \A k \in i..j : s[k] # Slash

HasSegment(s, seg) ==
    \E i \in 1..(Len(s) + 1) :
        LET j == i + Len(seg) - 1
        IN IsSegment(s, i, j) /\ SubSeq(s, i, j) = seg

\* C8: a path accepted by isSafeRelativePath is non-empty, holds no NUL and
\* no backslash, does not begin with '/', has no drive-letter prefix and no
\* segment '..'; its normalizePath result is a non-empty forward-slash path
\* none of whose segments is empty, '.' or '..'.
C8_AcceptedPathsAreSafe ==
    (verdict.checked /\ verdict.safe) =>
        /\ path # <<>>
        /\ Nul \notin Range(path)
        /\ Backslash \notin Range(path)
        /\ path[1] # Slash
        /\ ~(Len(path) >= 2 /\ path[1] \in Letters /\ path[2] = Colon)
        /\ ~HasSegment(path, <<Dot, Dot>>)
        /\ verdict.normalized # <<>>
        /\ Backslash \notin Range(verdict.normalized)
        /\ ~HasSegment(verdict.normalized, <<>>)
        /\ ~HasSegment(verdict.normalized, <<Dot>>)
        /\ ~HasSegment(verdict.normalized, <<Dot, Dot>>)

\* an accepted path of several segments that normalizePath changes
C8_Witness ==
    /\ verdict.checked
    /\ verdict.safe
    /\ Slash \in Range(path)
    /\ verdict.normalized # path
    /\ Slash \in Range(verdict.normalized)

\* the node reached from current_node by i parent links, NoRef if the links
\* end or leave the mapping before
RECURSIVE Up(_)
Up(i) ==
    IF i = 0 THEN (IF raw.current_node \in NodeIds THEN raw.current_node ELSE NoRef)
    ELSE LET below == Up(i - 1)
         IN IF below = NoRef \/ raw.mapping[below].parent \notin NodeIds THEN NoRef
            ELSE raw.mapping[below].parent

\* the parent links lead from current_node to a root (a node without
\* parent) in n nodes
ChainOfLength(n) ==
    /\ \A i \in 0..(n - 1) : Up(i) # NoRef
    /\ raw.mapping[Up(n - 1)].parent = NoRef

ValidChain == \E n \in 1..MaxGraphNodes : ChainOfLength(n)

\* the chain from the root to current_node
Chain ==
    LET n == CHOOSE m \in 1..MaxGraphNodes : ChainOfLength(m)
    IN [i \in 1..n |-> Up(n - i)]

\* C10: for a graph whose parent links form a valid chain from current_node
\* to the root, the converted conversation's messages are the messages of
\* the chain's nodes, each once, in root-to-leaf order (there is no
\* conversation if no node of the chain carries a message); no message of
\* a node off the chain is in the sequence.
C10_MessagesFollowChain ==
    (converted.done /\ ValidChain) =>
        LET carrying == SelectSeq(Chain, LAMBDA id : raw.mapping[id].message # "none")
        IN IF carrying = <<>> THEN converted.result = Null
           ELSE /\ converted.result # Null
                /\ Len(converted.result.messages) = Len(carrying)
                /\ \A i \in 1..Len(carrying) :
                       /\ converted.result.messages[i].id = carrying[i]
                       /\ converted.result.messages[i].role = raw.mapping[carrying[i]].message

\* a chain of two nodes with messages and an assistant message off the chain
C10_Witness ==
    /\ converted.done
    /\ ValidChain
    /\ Len(Chain) = 2
    /\ converted.result # Null
    /\ Len(converted.result.messages) = 2
    /\ \E id \in NodeIds : id \notin Range(Chain) /\ raw.mapping[id].message = "assistant"
    /\ \E i \in 1..2 : converted.result.messages[i].variants # {}

\* the keys of the assets an import has written (headless) or returned and
\* stored (interactive)
AssetKeysOut ==
    IF assets.phase = "written" THEN assets.written
    ELSE IF assets.phase \in {"parsed", "saved"}
    THEN assets.bundle.assets \cup assets.stored
    ELSE {}

ConversationsOut ==
    IF assets.phase = "written" THEN assets.result.conversations
    ELSE assets.bundle.conversations

AssetCountOut ==
    IF assets.phase = "written" THEN assets.result.assets
    ELSE Cardinality(assets.bundle.assets)

\* the file named by a key lies below the destination root: the key is
\* relative, has no drive prefix, no backslash and no NUL, and no prefix of
\* it climbs above the root
InsideRoot(key) ==
    /\ key # <<>>
    /\ key[1] # Slash
    /\ Backslash \notin Range(key) /\ Nul \notin Range(key)
    /\ ~(Len(key) >= 2 /\ key[1] \in Letters /\ key[2] = Colon)
    /\ ~HasSegment(key, <<Dot, Dot>>)

\* C9: every asset key an import writes, returns or stores passes the
\* path-safety check and names a file below the destination root, in the
\* headless and in the interactive importer; an archive whose asset
\* descriptor is "../e" yields no asset for its conversation (zero assets
\* when it holds the entry "../e" only), and the conversation is imported.
C9_AssetsStayInsideRoot ==
    assets.phase # "none" =>
        /\ \A key \in AssetKeysOut : isSafeRelativePath(key) /\ InsideRoot(key)
        /\ archive.descriptor = Escape =>
               /\ ConversationsOut = 1
               /\ AssetKeysOut \subseteq assets.generated
               /\ archive.names = {Escape} => AssetKeysOut = {} /\ AssetCountOut = 0

\* the archive of the tests: descriptor "../e", entry "../e", imported
C9_Witness ==
    /\ assets.phase \in {"written", "saved"}
    /\ archive.descriptor = Escape
    /\ archive.names = {Escape}
    /\ ConversationsOut = 1

\* an asset is written or stored, for a descriptor that normalizePath changes
C9_WitnessStored ==
    /\ assets.phase \in {"written", "saved"}
    /\ AssetKeysOut # {}
    /\ archive.descriptor # <<>>
    /\ AssetKeysOut = assetKeysOf(archive.descriptor)
    /\ archive.descriptor \notin AssetKeysOut

-----------------------------------------------------------------------------
(* slimConvert.ts, convertRawConversation lines 61-70: the walk from       *)
(* current_node along the parent links, one turn of the while loop at a    *)
(* time.  walk.cursor is the key the loop looks up next; a key outside the *)
(* mapping is the undefined cursor.                                        *)

StartWalk == [pc |-> "start", cursor |-> NoRef, visited |-> {}, path |-> <<>>]

walkContinues_Unguarded(nodes, cursor, visited) == cursor \in DOMAIN nodes

\* line 66: while (cursor && !visited.has(cursor.id))
walkContinues(nodes, cursor, visited) ==
    cursor \in DOMAIN nodes /\ cursor \notin visited

InitWalk ==
    /\ Idle
    /\ path = <<>>
    /\ verdict = NoVerdict
    /\ raw \in RawConversations
    /\ converted = NotConverted
    /\ archive = NoArchive
    /\ assets = NoAssets
    /\ walk = StartWalk
    /\ stamps = NoStamps
    /\ stamped = NotStamped
    /\ store = EmptyStore
    /\ op = NoOp
    /\ request = NoRequest
    /\ report = NoReport
    /\ modal = NoModal
    /\ jobs = <<>>
    /\ worker = NoWorker
    /\ result = NoResult
    /\ mergedIndex = NoMerge
    /\ kept = NoKept
    /\ span = NoSpan
    /\ segmented = NoSegments
    /\ extraction = NoExtraction
    /\ zips = NoZips
    /\ assetDb = NoAssetDb

\* lines 61-65: no current_node returns null, else cursor = nodes[current_node]
WalkBegin ==
    /\ walk.pc = "start"
    /\ walk' = IF raw.current_node = NoRef
               THEN [walk EXCEPT !.pc = "returned"]
               ELSE [walk EXCEPT !.pc = "loop", !.cursor = raw.current_node]
    /\ UNCHANGED besidesWalk

\* lines 67-69: one turn of the loop
WalkStep ==
    /\ walk.pc = "loop"
    /\ walkContinues(raw.mapping, walk.cursor, walk.visited)
    /\ walk' = [walk EXCEPT
                    !.path = Append(walk.path, walk.cursor),
                    !.visited = walk.visited \cup {walk.cursor},
                    !.cursor = IF raw.mapping[walk.cursor].parent # NoRef
                               THEN raw.mapping[walk.cursor].parent ELSE NoRef]
    /\ UNCHANGED besidesWalk

\* line 66 fails: the loop is left, line 70 follows
WalkEnd ==
    /\ walk.pc = "loop"
    /\ ~walkContinues(raw.mapping, walk.cursor, walk.visited)
    /\ walk' = [walk EXCEPT !.pc = "done"]
    /\ UNCHANGED besidesWalk

NextWalk ==
    \/ WalkBegin
    \/ WalkStep
    \/ WalkEnd

\* the loop is sequential code: a turn that can be taken is taken
SpecWalk == InitWalk /\ [][NextWalk]_vars /\ WF_vars(NextWalk)

-----------------------------------------------------------------------------
(* Properties of the parent-link walk                                      *)

NoRepeats(s) == \A i, j \in 1..Len(s) : s[i] = s[j] => i = j

\* what the walk has done so far: each node id is on the path at most once,
\* the path follows the parent links, and a finished walk stopped at a root,
\* a missing parent or an id met before, with the path the loop built
WalkIsTruncated ==
    walk.pc \in {"loop", "done"} =>
        /\ NoRepeats(walk.path)
        /\ walk.visited = Range(walk.path)
        /\ Len(walk.path) <= MaxGraphNodes
        /\ \A i \in 1..Len(walk.path) :
               /\ walk.path[i] \in NodeIds
               /\ i > 1 => walk.path[i] = raw.mapping[walk.path[i - 1]].parent
        /\ walk.pc = "done" =>
               /\ walk.cursor \notin NodeIds \/ walk.cursor \in walk.visited
               /\ walk.path = WalkPath(raw.mapping, raw.current_node, {}, <<>>)

\* C11: the parent-link walk of convertRawConversation terminates for every
\* finite graph, cycles and dangling parent references included: each node
\* id is visited at most once, and on an id already visited or a missing
\* parent the walk ends with the path truncated there; there is no step
\* that raises an error.
C11_WalkTerminates ==
    /\ []WalkIsTruncated
    /\ <>(walk.pc \in {"done", "returned"})

\* a walk that ended on a cycle after visiting every node
C11_Witness ==
    /\ walk.pc = "done"
    /\ Len(walk.path) = MaxGraphNodes
    /\ walk.cursor \in walk.visited

\* a walk that ended on a parent reference that is not in the mapping
C11_WitnessDangling ==
    /\ walk.pc = "done"
    /\ Len(walk.path) >= 2
    /\ walk.cursor = MaxGraphNodes + 1

-----------------------------------------------------------------------------
(* slimConvert.ts: the timestamps of convertRawConversation, lines 75-98,  *)
(* with transformMessage line 268 and normalizeMs lines 569-578.  A time   *)
(* is absent (null or undefined), <<>>, or present, <<value>>.  Values are *)
(* counted in units of 10^7, so that a date in seconds (1.6 * 10^9), the   *)
(* same date in milliseconds and the threshold 10^10 are all whole numbers *)
(* the checker can hold.                                                   *)

Absent == <<>>

\* 10_000_000_000 in units of 10^7
MsThreshold == 1000

\* value * 1000
MsPerSecond == 1000

\* two dates in seconds (1.6 and 1.7 * 10^9), the same two in milliseconds,
\* and zero
TimeValues == {0, 160, 170, 160000, 170000}

OptionalTimes == {Absent} \cup {<<v>> : v \in TimeValues}

RawMessageTimes == [create_time : OptionalTimes, update_time : {Absent, <<160>>}]

RawStamps ==
    [update_time : OptionalTimes,
     create_time : OptionalTimes,
     messages : UNION {[1..n -> RawMessageTimes] : n \in 1..MaxMessages}]

\* a ?? b
Coalesce(a, b) == IF a # Absent THEN a ELSE b

normalizeMs(value) ==
    IF value = Absent \/ value[1] = 0 THEN 0
    ELSE IF value[1] > MsThreshold THEN value[1]
    ELSE value[1] * MsPerSecond

normalizeOptionalMs(value) ==
    IF value = Absent \/ value[1] = 0 THEN Absent ELSE <<normalizeMs(value)>>

\* transformMessage line 268: the time of a converted message
messageTime(message) ==
    normalizeOptionalMs(Coalesce(message.create_time, Coalesce(message.update_time, Absent)))

\* lines 85-87: one turn of the loop over the path
RECURSIVE lastMessageTs(_, _)
lastMessageTs(soFar, messages) ==
    IF messages = <<>> THEN soFar
    ELSE LET time == messageTime(Head(messages))
         IN lastMessageTs(IF time # Absent /\ time[1] > soFar THEN time[1] ELSE soFar,
                          Tail(messages))

\* lines 75 and 98
lastMessageTime(rawTimes) ==
    normalizeMs(<<lastMessageTs(Coalesce(rawTimes.update_time,
                                         Coalesce(rawTimes.create_time, <<0>>))[1],
                                rawTimes.messages)>>)

InitStamps ==
    /\ Idle
    /\ path = <<>>
    /\ verdict = NoVerdict
    /\ raw = NoGraph
    /\ converted = NotConverted
    /\ archive = NoArchive
    /\ assets = NoAssets
    /\ walk = NoWalk
    /\ stamps \in RawStamps
    /\ stamped = NotStamped
    /\ store = EmptyStore
    /\ op = NoOp
    /\ request = NoRequest
    /\ report = NoReport
    /\ modal = NoModal
    /\ jobs = <<>>
    /\ worker = NoWorker
    /\ result = NoResult
    /\ mergedIndex = NoMerge
    /\ kept = NoKept
    /\ span = NoSpan
    /\ segmented = NoSegments
    /\ extraction = NoExtraction
    /\ zips = NoZips
    /\ assetDb = NoAssetDb

\* convertRawConversation over a path whose nodes all carry a message
ConvertStamps ==
    /\ ~stamped.done
    /\ stamped' = [done |-> TRUE,
                   times |-> [i \in 1..Len(stamps.messages) |-> messageTime(stamps.messages[i])],
                   last_message_time |-> lastMessageTime(stamps)]
    /\ UNCHANGED <<besidesStamps, stamps>>

NextStamps == ConvertStamps

SpecStamps == InitStamps /\ [][NextStamps]_vars

-----------------------------------------------------------------------------
(* Properties of last_message_time                                         *)

\* a raw value in milliseconds: above 10^10 it is milliseconds already,
\* any other value is seconds
InMs(v) == IF v > MsThreshold THEN v ELSE v * MsPerSecond

\* the timestamps the claim names: the graph's update time (its create time
\* if it has no update time) and the time of every message of the path
Observed ==
    LET stated == Coalesce(stamps.update_time, stamps.create_time)
        ofMessage(m) == Coalesce(m.create_time, m.update_time)
    IN {stated} \cup {ofMessage(stamps.messages[i]) : i \in 1..Len(stamps.messages)}

MaxOf(S) == IF S = {} THEN 0 ELSE CHOOSE m \in S : \A x \in S : x <= m

\* C12: last_message_time is the maximum, in milliseconds, of the graph's
\* stated update/create time and every message timestamp of the converted
\* path, a raw value above 10^10 counting as milliseconds and any other as
\* seconds.
C12_LastMessageTimeIsMax ==
    stamped.done =>
        stamped.last_message_time = MaxOf({InMs(t[1]) : t \in Observed \ {Absent}})

-----------------------------------------------------------------------------
(* lib/text.ts and lib/searchBuilder.ts: normalizeSearchText,              *)
(* buildTrigrams, buildSearchData.  A text is a sequence of UTF-16 code    *)
(* units over the letters a and b, the capital B, the capital I with dot   *)
(* above (U+0130), the space and the newline; a block of a conversation is *)
(* the sequence of its lines, a conversation the sequence of the blocks of *)
(* its one indexed message.  normalize('NFKC') leaves every text over      *)
(* these characters as it is.                                              *)

Space == " "
Newline == "\n"
DottedCapitalI == "I."   \* U+0130
CombiningDot == "."      \* U+0307
CombiningAcute == "'"    \* U+0301
EAcute == "e'"           \* U+00E9

\* the lower case of one character: U+0130 becomes i followed by U+0307
\* (Unicode SpecialCasing, in every locale but tr, az and lt)
lowerCase(c) ==
    IF c = "B" THEN <<"b">>
    ELSE IF c = DottedCapitalI THEN <<"i", CombiningDot>>
    ELSE <<c>>

toLocaleLowerCase(s) == Flatten([i \in 1..Len(s) |-> lowerCase(s[i])])

isWhitespace(c) == c \in {Space, Newline}

RECURSIVE trimStart(_)
trimStart(s) ==
    IF s # <<>> /\ isWhitespace(Head(s)) THEN trimStart(Tail(s)) ELSE s

RECURSIVE trimEnd(_)
trimEnd(s) ==
    IF s # <<>> /\ isWhitespace(s[Len(s)]) THEN trimEnd(SubSeq(s, 1, Len(s) - 1)) ELSE s

\* String.prototype.trim
trim(s) == trimEnd(trimStart(s))

\* replace(/\s+/g, ' ')
RECURSIVE collapseWhitespace(_)
collapseWhitespace(s) ==
    IF s = <<>> THEN <<>>
    ELSE IF isWhitespace(Head(s)) THEN <<Space>> \o collapseWhitespace(trimStart(s))
    ELSE <<Head(s)>> \o collapseWhitespace(Tail(s))

\* normalize('NFKC'): a letter e followed by U+0301 is composed to U+00E9;
\* the other characters of the model are left as they are
RECURSIVE normalizeNFKC(_)
normalizeNFKC(s) ==
    IF s = <<>> THEN <<>>
    ELSE IF Len(s) >= 2 /\ s[1] = "e" /\ s[2] = CombiningAcute
    THEN <<EAcute>> \o normalizeNFKC(SubSeq(s, 3, Len(s)))
    ELSE <<Head(s)>> \o normalizeNFKC(Tail(s))

normalizeSearchText(input) ==
    trim(collapseWhitespace(toLocaleLowerCase(normalizeNFKC(input))))

buildTrigrams(input) ==
    LET normalized == normalizeSearchText(input)
    IN IF Len(normalized) < 3 THEN <<>>
       ELSE [i \in 1..(Len(normalized) - 2) |-> SubSeq(normalized, i, i + 2)]

\* Array.prototype.join('\n')
RECURSIVE joinLines(_)
joinLines(parts) ==
    IF parts = <<>> THEN <<>>
    ELSE IF Len(parts) = 1 THEN parts[1]
    ELSE parts[1] \o <<Newline>> \o joinLines(Tail(parts))

\* buildSearchData: the located lines of every block (linesFromText of the
\* block's text) and the distinct trigrams of the blocks' texts joined
buildSearchData(id, blocks) ==
    [lines |-> Flatten([b \in 1..Len(blocks) |->
                   [l \in 1..Len(blocks[b]) |->
                       [loc |-> [conversationId |-> id, messageId |-> "m",
                                 blockIndex |-> b - 1, lineNo |-> l - 1],
                        text |-> blocks[b][l]]]]),
     grams |-> Range(buildTrigrams(
                   joinLines([b \in 1..Len(blocks) |-> joinLines(blocks[b])])))]

-----------------------------------------------------------------------------
(* lib/db.ts: saveConversationRecord, saveSearchData,                      *)
(* addConversationToSearchIndex, deleteConversation, removeSearchData,     *)
(* each IndexedDB transaction one step.                                    *)

Remove(f, k) == [x \in DOMAIN f \ {k} |-> f[x]]

\* the texts stored conversations have: one line "aBab", one line "b a",
\* one line "bab"
StoreTexts ==
    { << << <<"a", "B", "a", "b">> >> >>,
      << << <<"b", Space, "a">> >> >>,
      << << <<"b", "a", "b">> >> >> }

StorePayloads == [id : {IdA, IdB}, blocks : StoreTexts]

\* importZips line 485 ff.: the save of one payload starts
SaveBegin(payload) ==
    /\ op.pc = "idle"
    /\ op.count < MaxOps
    /\ op' = [pc |-> "saveConversationRecord", kind |-> "save", id |-> payload.id,
              blocks |-> payload.blocks, grams |-> {},
              count |-> op.count + 1, failures |-> op.failures, last |-> op.last]
    /\ UNCHANGED <<besidesStorage, store>>

\* saveConversationRecord: one transaction over index and conversations
SaveConversationRecord ==
    /\ op.pc = "saveConversationRecord"
    /\ store' = [store EXCEPT !.conversations = Put(@, op.id, op.blocks)]
    /\ op' = [op EXCEPT !.pc = "saveSearchData"]
    /\ UNCHANGED besidesStorage

\* saveSearchData lines 302-305: one transaction puts the lines and the
\* gram membership
SaveSearchData ==
    /\ op.pc = "saveSearchData"
    /\ LET search == buildSearchData(op.id, op.blocks)
       IN store' = [store EXCEPT !.searchLines = Put(@, op.id, search.lines),
                                 !.searchMembership = Put(@, op.id, search.grams)]
    /\ op' = [op EXCEPT !.pc = "addConversationToSearchIndex"]
    /\ UNCHANGED besidesStorage

\* addConversationToSearchIndex: the id joins the posting of every gram
addToPostings(searchIndex, id, grams) ==
    [gram \in DOMAIN searchIndex \cup grams |->
        IF gram \in grams THEN Get(searchIndex, gram, {}) \cup {id}
        ELSE searchIndex[gram]]

\* removeSearchData lines 317-330: the id leaves the posting of every gram
\* of the membership record, an emptied posting is deleted
removeFromPostings(searchIndex, id, grams) ==
    LET emptied == {gram \in grams \cap DOMAIN searchIndex : searchIndex[gram] \ {id} = {}}
    IN [gram \in DOMAIN searchIndex \ emptied |->
           IF gram \in grams THEN searchIndex[gram] \ {id} ELSE searchIndex[gram]]

AddConversationToSearchIndex ==
    /\ op.pc = "addConversationToSearchIndex"
    /\ store' = [store EXCEPT !.searchIndex =
                     addToPostings(@, op.id, buildSearchData(op.id, op.blocks).grams)]
    /\ op' = [pc |-> "idle", count |-> op.count, failures |-> op.failures,
              last |-> [kind |-> "save", id |-> op.id, outcome |-> "ok"]]
    /\ UNCHANGED besidesStorage

\* cleanupLocal line 638: deleteConversation of a conversation of the local
\* index starts
DeleteBegin(id) ==
    /\ op.pc = "idle"
    /\ op.count < MaxOps
    /\ id \in DOMAIN store.conversations
    /\ op' = [pc |-> "readMembership", kind |-> "delete", id |-> id,
              blocks |-> <<>>, grams |-> {},
              count |-> op.count + 1, failures |-> op.failures, last |-> op.last]
    /\ UNCHANGED <<besidesStorage, store>>

\* removeSearchData lines 310-311
ReadMembership ==
    /\ op.pc = "readMembership"
    /\ op' = [op EXCEPT !.pc = "deleteLines",
                        !.grams = Get(store.searchMembership, op.id, {})]
    /\ UNCHANGED <<besidesStorage, store>>

\* removeSearchData lines 312-315
DeleteLines ==
    /\ op.pc = "deleteLines"
    /\ store' = [store EXCEPT !.searchLines = Remove(@, op.id),
                              !.searchMembership = Remove(@, op.id)]
    /\ op' = [op EXCEPT !.pc = IF op.grams # {} THEN "removePostings" ELSE "deleteRecords"]
    /\ UNCHANGED besidesStorage

\* removeSearchData lines 316-330
RemovePostings ==
    /\ op.pc = "removePostings"
    /\ store' = [store EXCEPT !.searchIndex = removeFromPostings(@, op.id, op.grams)]
    /\ op' = [op EXCEPT !.pc = "deleteRecords"]
    /\ UNCHANGED besidesStorage

\* deleteConversation lines 210-215
DeleteRecords ==
    /\ op.pc = "deleteRecords"
    /\ store' = [store EXCEPT !.conversations = Remove(@, op.id)]
    /\ op' = [pc |-> "idle", count |-> op.count, failures |-> op.failures,
              last |-> [kind |-> "delete", id |-> op.id, outcome |-> "ok"]]
    /\ UNCHANGED besidesStorage

\* the next transaction of the operation throws (quota exceeded, storage
\* blocked) or the page is closed: the operation ends where it is
OperationFails ==
    /\ op.pc # "idle"
    /\ op' = [pc |-> "idle", count |-> op.count, failures |-> op.failures + 1,
              last |-> [kind |-> op.kind, id |-> op.id, outcome |-> "error"]]
    /\ UNCHANGED <<besidesStorage, store>>

InitStore ==
    /\ Idle
    /\ path = <<>>
    /\ verdict = NoVerdict
    /\ raw = NoGraph
    /\ converted = NotConverted
    /\ archive = NoArchive
    /\ assets = NoAssets
    /\ walk = NoWalk
    /\ stamps = NoStamps
    /\ stamped = NotStamped
    /\ store = EmptyStore
    /\ op = NoOp
    /\ request = NoRequest
    /\ report = NoReport
    /\ modal = NoModal
    /\ jobs = <<>>
    /\ worker = NoWorker
    /\ result = NoResult
    /\ mergedIndex = NoMerge
    /\ kept = NoKept
    /\ span = NoSpan
    /\ segmented = NoSegments
    /\ extraction = NoExtraction
    /\ zips = NoZips
    /\ assetDb = NoAssetDb

NextStore ==
    \/ \E payload \in StorePayloads : SaveBegin(payload)
    \/ SaveConversationRecord
    \/ SaveSearchData
    \/ AddConversationToSearchIndex
    \/ \E id \in {IdA, IdB} : DeleteBegin(id)
    \/ ReadMembership
    \/ DeleteLines
    \/ RemovePostings
    \/ DeleteRecords
    \/ OperationFails

SpecStore == InitStore /\ [][NextStore]_vars

-----------------------------------------------------------------------------
(* Properties of the stored search data                                    *)

\* the search records of the stored version of conversation id exist: its
\* lines, its gram membership and its id in the posting of each of its grams
SearchRecordsOf(id, blocks) ==
    LET search == buildSearchData(id, blocks)
    IN /\ id \in DOMAIN store.searchLines
       /\ store.searchLines[id] = search.lines
       /\ id \in DOMAIN store.searchMembership
       /\ store.searchMembership[id] = search.grams
       /\ \A gram \in search.grams :
              gram \in DOMAIN store.searchIndex /\ id \in store.searchIndex[gram]

HasSearchRecords(id) ==
    \/ id \in DOMAIN store.searchLines
    \/ id \in DOMAIN store.searchMembership
    \/ \E gram \in DOMAIN store.searchIndex : id \in store.searchIndex[gram]

\* C13: in every state the store can be left in (no operation in progress,
\* the last one ended or failed), a conversation record exists if and only
\* if the search lines and gram records of that version of the conversation
\* exist.
C13_ConversationAndSearchAsUnit ==
    op.pc = "idle" =>
        \A id \in {IdA, IdB} :
            IF id \in DOMAIN store.conversations
            THEN SearchRecordsOf(id, store.conversations[id])
            ELSE ~HasSearchRecords(id)

\* C14: after a deleteConversation(id) that ran to its end, whatever saves
\* of id came before it (no operation having failed), no search-line
\* record, no gram-membership record and no gram posting refers to id.
C14_DeleteLeavesNoSearchData ==
    (/\ op.pc = "idle"
     /\ op.last.kind = "delete"
     /\ op.last.outcome = "ok"
     /\ op.failures = 0) => ~HasSearchRecords(op.last.id)

-----------------------------------------------------------------------------
(* One import request, archive by archive: scripts/import-dataset.ts with  *)
(* importDatasets and loadZipArchive (headless), parseExportZips           *)
(* (interactive).  A source is a ZIP file or, for the headless importer, a *)
(* directory; it can be read (unzipped, listed) or not; its chat.html is   *)
(* absent, has an empty jsonData array or holds graphs; its                *)
(* conversations.json is absent, does not parse to a non-empty array, or   *)
(* holds graphs.  The source at position i holds one conversation, named   *)
(* i.                                                                      *)

ZipArchives ==
    [kind : {"zip", "dir"},
     unzips : BOOLEAN,
     chatHtml : {"none", "empty", "graphs"},
     conversationsJson : {"none", "invalid", "graphs"}]

\* a list that is null; a conversation is named by a position, from 1
NoList == <<0>>

ModeArguments == Modes \cup {"other"}

Requests ==
    [target : {"headless", "browser"},
     mode : ModeArguments,
     archives : UNION {[1..n -> ZipArchives] : n \in 1..MaxArchives},
     writable : BOOLEAN]

\* extractConversationsFromChat: null without the marker, else the array
extractConversationsFromChat(chatHtml, conversations) ==
    IF chatHtml = "none" THEN NoList
    ELSE IF chatHtml = "empty" THEN <<>>
    ELSE conversations

\* safeJsonParse(conversationsJson, [])
safeJsonParse(conversationsJson, conversations) ==
    IF conversationsJson = "graphs" THEN conversations ELSE <<>>

\* datasetImporter.ts loadZipArchive: the archive's conversations, or the
\* error it throws
loadZipArchive(zip, conversations) ==
    IF ~zip.unzips THEN [error |-> "Failed to read ZIP archive"]
    ELSE LET conversationsFromChat ==
                 IF zip.chatHtml # "none"
                 THEN extractConversationsFromChat(zip.chatHtml, conversations) ELSE NoList
             found ==
                 IF conversationsFromChat # NoList /\ conversationsFromChat # <<>>
                 THEN conversationsFromChat
                 ELSE IF zip.conversationsJson # "none"
                 THEN safeJsonParse(zip.conversationsJson, conversations)
                 ELSE NoList
         IN IF found = NoList \/ found = <<>>
            THEN [error |-> "Archive is missing chat.html and conversations.json"]
            ELSE [conversations |-> found]

\* datasetImporter.ts loadDirectoryArchive
loadDirectoryArchive(dir, conversations) ==
    IF ~dir.unzips THEN [error |-> "ENOENT"]
    ELSE LET fromChat ==
                 IF dir.chatHtml # "none"
                 THEN extractConversationsFromChat(dir.chatHtml, conversations) ELSE NoList
         IN IF fromChat = NoList \/ fromChat = <<>>
            THEN IF dir.conversationsJson = "none"
                 THEN [error |-> "Directory is missing chat.html and conversations.json"]
                 ELSE [conversations |-> safeJsonParse(dir.conversationsJson, conversations)]
            ELSE [conversations |-> fromChat]

\* importDatasets line 97
loadArchive(source, conversations) ==
    IF source.kind = "zip" THEN loadZipArchive(source, conversations)
    ELSE loadDirectoryArchive(source, conversations)

rawListOf_JsonOnly(zip, conversations) ==
    IF ~zip.unzips THEN NoList ELSE safeJsonParse(zip.conversationsJson, conversations)

\* parseExportZips lines 111-142: the archive's rawList, null or empty if
\* the archive is skipped
rawListOf(zip, conversations) ==
    IF ~zip.unzips THEN NoList
    ELSE LET fromChat ==
                 IF zip.chatHtml # "none"
                 THEN extractConversationsFromChat(zip.chatHtml, conversations) ELSE NoList
         IN IF (fromChat = NoList \/ fromChat = <<>>) /\ zip.conversationsJson # "none"
            THEN safeJsonParse(zip.conversationsJson, conversations)
            ELSE fromChat

StartReport ==
    [pc |-> "start", next |-> 1, ingested |-> {}, warnings |-> 0,
     errors |-> <<>>, success |-> FALSE, exit |-> "pending", written |-> {}]

InitRunner ==
    /\ Idle
    /\ path = <<>>
    /\ verdict = NoVerdict
    /\ raw = NoGraph
    /\ converted = NotConverted
    /\ archive = NoArchive
    /\ assets = NoAssets
    /\ walk = NoWalk
    /\ stamps = NoStamps
    /\ stamped = NotStamped
    /\ store = EmptyStore
    /\ op = NoOp
    /\ request \in {r \in Requests :
                        r.target = "browser" =>
                            /\ r.mode \in Modes
                            /\ \A i \in 1..Len(r.archives) : r.archives[i].kind = "zip"}
    /\ report = StartReport
    /\ modal = NoModal
    /\ jobs = <<>>
    /\ worker = NoWorker
    /\ result = NoResult
    /\ mergedIndex = NoMerge
    /\ kept = NoKept
    /\ span = NoSpan
    /\ segmented = NoSegments
    /\ extraction = NoExtraction
    /\ zips = NoZips
    /\ assetDb = NoAssetDb

\* import-dataset.ts parseArgs: a --mode value other than the three modes
\* throws before main's try; the rejection of main() is unhandled, the
\* runtime prints the error and ends the process with a non-zero status
CliParseArgs ==
    /\ request.target = "headless"
    /\ report.pc = "start"
    /\ report' = IF request.mode \in Modes
                 THEN [report EXCEPT !.pc = "archives"]
                 ELSE [report EXCEPT !.pc = "done",
                                     !.errors = <<"Unknown --mode value">>,
                                     !.exit = "nonzero"]
    /\ UNCHANGED <<besidesRunner, request>>

\* importDatasets lines 97-98 for one source; an error loadZipArchive throws
\* leaves importDatasets and is caught by main: console.error, exit(1)
CliLoadArchive ==
    /\ request.target = "headless"
    /\ report.pc = "archives"
    /\ report.next <= Len(request.archives)
    /\ LET loaded == loadArchive(request.archives[report.next], <<report.next>>)
       IN report' = IF "error" \in DOMAIN loaded
                    THEN [report EXCEPT !.pc = "done",
                                        !.errors = Append(@, loaded.error),
                                        !.exit = "nonzero"]
                    ELSE [report EXCEPT !.next = @ + 1,
                                        !.ingested = @ \cup Range(loaded.conversations)]
    /\ UNCHANGED <<besidesRunner, request>>

\* importDatasets lines 161-162 and main: writeDataset writes or throws,
\* main logs the counts or the error
CliWriteDataset ==
    /\ request.target = "headless"
    /\ report.pc = "archives"
    /\ report.next > Len(request.archives)
    /\ report' = IF request.writable
                 THEN [report EXCEPT !.pc = "done", !.written = report.ingested,
                                     !.success = TRUE, !.exit = "zero"]
                 ELSE [report EXCEPT !.pc = "done",
                                     !.errors = Append(@, "EACCES"),
                                     !.exit = "nonzero"]
    /\ UNCHANGED <<besidesRunner, request>>

\* importZips calls parseExportZips
BrowserParseBegin ==
    /\ request.target = "browser"
    /\ report.pc = "start"
    /\ report' = [report EXCEPT !.pc = "archives"]
    /\ UNCHANGED <<besidesRunner, request>>

\* parseExportZips, one turn of the loop over the files: an archive that
\* does not unzip or holds no conversations is skipped with a warning
BrowserParseArchive ==
    /\ request.target = "browser"
    /\ report.pc = "archives"
    /\ report.next <= Len(request.archives)
    /\ LET rawList == rawListOf(request.archives[report.next], <<report.next>>)
       IN report' = IF rawList = NoList \/ rawList = <<>>
                    THEN [report EXCEPT !.next = @ + 1, !.warnings = @ + 1]
                    ELSE [report EXCEPT !.next = @ + 1,
                                        !.ingested = @ \cup Range(rawList)]
    /\ UNCHANGED <<besidesRunner, request>>

\* parseExportZips returns the bundle
BrowserParseEnd ==
    /\ request.target = "browser"
    /\ report.pc = "archives"
    /\ report.next > Len(request.archives)
    /\ report' = [report EXCEPT !.pc = "done"]
    /\ UNCHANGED <<besidesRunner, request>>

NextRunner ==
    \/ CliParseArgs
    \/ CliLoadArchive
    \/ CliWriteDataset
    \/ BrowserParseBegin
    \/ BrowserParseArchive
    \/ BrowserParseEnd

SpecRunner == InitRunner /\ [][NextRunner]_vars

-----------------------------------------------------------------------------
(* Properties of a request with archives that cannot be used               *)

\* an archive that unpacks and holds graph data, embedded or as a non-empty
\* conversations.json
Usable(zip) ==
    zip.unzips /\ (zip.chatHtml = "graphs" \/ zip.conversationsJson = "graphs")

UsableArchives == {i \in 1..Len(request.archives) : Usable(request.archives[i])}

\* the run skipped every unusable archive with a warning and ingested the
\* conversations of all the others
SkippedAndContinued ==
    /\ report.ingested = UsableArchives
    /\ report.warnings = Len(request.archives) - Cardinality(UsableArchives)
    /\ report.errors = <<>>

RequestFails ==
    \/ request.mode \notin Modes
    \/ UsableArchives # 1..Len(request.archives)
    \/ ~request.writable

\* C16: the batch-mode entry point runs only with mode upsert, replace or
\* clone; on any failure (an archive that cannot be read or lacks the
\* markers, an invalid mode, an output that cannot be written) it reports
\* one error and a non-zero status, and it reports success only when every
\* archive of the batch was ingested and the dataset written.
C16_BatchModeFailsLoudly ==
    (report.pc = "done" /\ request.target = "headless") =>
        /\ request.mode \notin Modes => report.ingested = {} /\ report.written = {}
        /\ RequestFails =>
               /\ report.exit = "nonzero"
               /\ Len(report.errors) = 1
               /\ ~report.success
        /\ ~RequestFails =>
               /\ report.exit = "zero"
               /\ report.success
               /\ report.errors = <<>>
               /\ report.written = 1..Len(request.archives)

\* the same for a batch of ZIP files only
BatchModeFailsLoudlyForZips ==
    (\A i \in 1..Len(request.archives) : request.archives[i].kind = "zip") =>
        C16_BatchModeFailsLoudly

-----------------------------------------------------------------------------
(* components/import/ImportModal.tsx and AppDataContext importZips: the    *)
(* open import dialog, the ways it calls importZips, and the calls' steps  *)
(* between their awaits.  State set in one synchronous stretch of code is  *)
(* rendered before the next user event.  The conversations a call saves    *)
(* are named <<call, k>>.                                                  *)

\* ImportModal line 95: the selector (mode, button, drop zone) is shown
showSelector == modal.progress.phase \in {"idle", "error"}

\* line 105
selectorDisabled == modal.importing \/ ~modal.storageAvailable

OpenModal ==
    [open |-> TRUE, storageAvailable |-> TRUE, picker |-> FALSE, importing |-> FALSE,
     progress |-> [phase |-> "idle", total |-> Absent, processed |-> Absent,
                   resultCount |-> Absent],
     persisted |-> {}]

\* setImportProgress({ phase, message })
PhaseOnly(phase) ==
    [phase |-> phase, total |-> Absent, processed |-> Absent, resultCount |-> Absent]

Active == {j \in 1..Len(jobs) : jobs[j].pc \in {"parsing", "saving"}}

\* handleFiles lines 47-59 with ZIP files (neither it nor importZips looks
\* at importing) and importZips lines 318-345, up to the first await:
\* setImporting(true), phase 'processing'
CallImportZips ==
    /\ Len(jobs) < MaxJobs
    /\ jobs' = Append(jobs, [pc |-> "parsing", total |-> 0, processed |-> 0,
                             returned |-> Absent, failed |-> FALSE,
                             overlapped |-> Active # {}])
    /\ modal' = [modal EXCEPT !.importing = TRUE, !.picker = FALSE,
                              !.progress = PhaseOnly("processing")]

\* handleDrop lines 61-69 on the drop zone, lines 180-194
DropFiles ==
    /\ modal.open /\ modal.storageAvailable
    /\ ~modal.picker
    /\ showSelector
    /\ CallImportZips
    /\ UNCHANGED besidesDialog

\* startFilePicker lines 85-91, from the button (line 177, disabled while
\* selectorDisabled) or from a click or Enter on the drop zone (lines 185
\* and 190, which ask for storage only); the system's file dialog opens
StartFilePicker ==
    /\ modal.open
    /\ ~modal.picker
    /\ showSelector
    /\ ~selectorDisabled \/ modal.storageAvailable
    /\ modal' = [modal EXCEPT !.picker = TRUE]
    /\ UNCHANGED <<besidesDialog, jobs>>

\* lines 262-270: the file input itself, rendered whenever the dialog is
\* open and disabled only without storage, is focused (useModalA11y keeps
\* every enabled input in the tab order) and activated
ActivateFileInput ==
    /\ modal.open /\ modal.storageAvailable
    /\ ~modal.picker
    /\ modal' = [modal EXCEPT !.picker = TRUE]
    /\ UNCHANGED <<besidesDialog, jobs>>

\* line 269: onChange of the file input with ZIP files chosen
FilesChosen ==
    /\ modal.open /\ modal.storageAvailable
    /\ modal.picker
    /\ CallImportZips
    /\ UNCHANGED besidesDialog

\* the file dialog is closed without a choice: no change event
PickerCancelled ==
    /\ modal.open
    /\ modal.picker
    /\ modal' = [modal EXCEPT !.picker = FALSE]
    /\ UNCHANGED <<besidesDialog, jobs>>

\* "Import more", line 256: resetImportProgress
ImportMore ==
    /\ modal.open
    /\ ~modal.picker
    /\ modal.progress.phase = "complete"
    /\ ~modal.importing
    /\ modal' = [modal EXCEPT !.progress = PhaseOnly("idle")]
    /\ UNCHANGED <<besidesDialog, jobs>>

\* importZips lines 346-472: the archives are parsed; nothing to save ends
\* the call (lines 423-441 and finally), else the save loop starts with
\* phase 'saving', total and processed 0
JobParsed(j, total) ==
    /\ jobs[j].pc = "parsing"
    /\ IF total = 0
       THEN /\ jobs' = [jobs EXCEPT ![j].pc = "ended", ![j].returned = <<0>>]
            /\ modal' = [modal EXCEPT
                             !.importing = FALSE,
                             !.progress = [phase |-> "complete", total |-> <<0>>,
                                           processed |-> <<0>>, resultCount |-> <<0>>]]
       ELSE /\ jobs' = [jobs EXCEPT ![j].pc = "saving", ![j].total = total]
            /\ modal' = [modal EXCEPT
                             !.progress = [phase |-> "saving", total |-> <<total>>,
                                           processed |-> <<0>>, resultCount |-> Absent]]
    /\ UNCHANGED besidesDialog

\* lines 476-513: one conversation is saved, processed is counted up and
\* shown
JobSaves(j) ==
    /\ jobs[j].pc = "saving"
    /\ jobs[j].processed < jobs[j].total
    /\ jobs' = [jobs EXCEPT ![j].processed = @ + 1]
    /\ modal' = [modal EXCEPT
                     !.persisted = @ \cup {<<j, jobs[j].processed + 1>>},
                     !.progress = [@ EXCEPT !.processed = <<jobs[j].processed + 1>>]]
    /\ UNCHANGED besidesDialog

\* lines 514-542 and finally
JobFinishes(j) ==
    /\ jobs[j].pc = "saving"
    /\ jobs[j].processed = jobs[j].total
    /\ jobs' = [jobs EXCEPT ![j].pc = "ended", ![j].returned = <<jobs[j].total>>]
    /\ modal' = [modal EXCEPT
                     !.importing = FALSE,
                     !.progress = [phase |-> "complete", total |-> <<jobs[j].total>>,
                                   processed |-> <<jobs[j].total>>,
                                   resultCount |-> <<jobs[j].total>>]]
    /\ UNCHANGED besidesDialog

\* lines 543-553: an await of the call rejects; catch sets phase 'error'
\* and returns 0, finally clears importing
JobFails(j) ==
    /\ jobs[j].pc \in {"parsing", "saving"}
    /\ jobs' = [jobs EXCEPT ![j].pc = "ended", ![j].returned = <<0>>, ![j].failed = TRUE]
    /\ modal' = [modal EXCEPT !.importing = FALSE, !.progress = PhaseOnly("error")]
    /\ UNCHANGED besidesDialog

InitModal ==
    /\ Idle
    /\ path = <<>>
    /\ verdict = NoVerdict
    /\ raw = NoGraph
    /\ converted = NotConverted
    /\ archive = NoArchive
    /\ assets = NoAssets
    /\ walk = NoWalk
    /\ stamps = NoStamps
    /\ stamped = NotStamped
    /\ store = EmptyStore
    /\ op = NoOp
    /\ request = NoRequest
    /\ report = NoReport
    /\ modal = OpenModal
    /\ jobs = <<>>
    /\ worker = NoWorker
    /\ result = NoResult
    /\ mergedIndex = NoMerge
    /\ kept = NoKept
    /\ span = NoSpan
    /\ segmented = NoSegments
    /\ extraction = NoExtraction
    /\ zips = NoZips
    /\ assetDb = NoAssetDb

NextModal ==
    \/ DropFiles
    \/ StartFilePicker
    \/ ActivateFileInput
    \/ FilesChosen
    \/ PickerCancelled
    \/ ImportMore
    \/ \E j \in 1..Len(jobs), total \in 0..MaxSaves : JobParsed(j, total)
    \/ \E j \in 1..Len(jobs) : JobSaves(j)
    \/ \E j \in 1..Len(jobs) : JobFinishes(j)
    \/ \E j \in 1..Len(jobs) : JobFails(j)

SpecModal == InitModal /\ [][NextModal]_vars

-----------------------------------------------------------------------------
(* Properties of the import dialog                                         *)

\* C17: there is one active import job at a time: while an importZips call
\* runs no other call runs interleaved with it, and the importing flag is
\* true exactly while a call is active.
C17_OneActiveImportJob ==
    /\ Cardinality(Active) <= 1
    /\ modal.importing <=> Active # {}

\* C18: when an import ends with an error after conversations were saved,
\* those conversations stay stored, and the final progress state and the
\* result of the import give the number of conversations written.
C18_PartialImportReported ==
    \A j \in 1..Len(jobs) :
        (/\ Len(jobs) = 1
         /\ jobs[j].pc = "ended"
         /\ jobs[j].failed
         /\ jobs[j].processed > 0) =>
            /\ {<<j, k>> : k \in 1..jobs[j].processed} \subseteq modal.persisted
            /\ jobs[j].returned = <<jobs[j].processed>>
            /\ modal.progress.processed = <<jobs[j].processed>>

\* the part of C18 about persistence alone: a failed import keeps what it
\* had saved
FailedImportKeepsSaved ==
    \A j \in 1..Len(jobs) :
        (jobs[j].pc = "ended" /\ jobs[j].failed) =>
            {<<j, k>> : k \in 1..jobs[j].processed} \subseteq modal.persisted

-----------------------------------------------------------------------------
(* The search worker and buildSearchBundle: the worker takes a             *)
(* search bundle ('init'), builds its indexes, and answers 'search'        *)
(* requests.  A Set or Map of the code is the sequence of its members in   *)
(* insertion order; the response stays in result until the page has taken  *)
(* it.  Titles and times of the summaryMap are left out.                   *)

\* the conversations a bundle is built from: one with two blocks whose
\* lines interleave by line number, one with a line starting with U+0130,
\* one sharing trigrams with both
SearchTexts ==
    { << << <<"a", "b", "a">>, <<"b">>, <<"B", "a", "b">>, <<"a", "b", "a">> >>,
         << <<"a", "b">>, <<"b", "a", "b">> >> >>,
      << << <<DottedCapitalI, "a", "b", "a">> >> >>,
      << << <<"b", "a", "b">>, <<"a", "b", "a">> >> >> }

SearchIds == {IdA, IdB}

\* the payload lists of at most MaxPayloads conversations with distinct ids
PayloadLists ==
    {ps \in UNION {[1..n -> [id : SearchIds, blocks : SearchTexts]] : n \in 0..MaxPayloads} :
        \A i, j \in 1..Len(ps) : ps[i].id = ps[j].id => i = j}

QueryChars == {"a", "b", "B", DottedCapitalI, Space}

Queries == UNION {[1..n -> QueryChars] : n \in 0..MaxQueryLen}

\* onmessage line 167: message.limit ?? 40
DefaultLimit == 40

Limits == {1, 2, DefaultLimit}

\* Array.prototype.slice and String.prototype.slice, 0 <= start
slice(s, start, end) == SubSeq(s, start + 1, Min(end, Len(s)))

\* String.prototype.indexOf
indexOf(s, needle) ==
    LET found == {i \in 0..(Len(s) - Len(needle)) :
                      SubSeq(s, i + 1, i + Len(needle)) = needle}
    IN IF found = {} THEN -1 ELSE CHOOSE i \in found : \A j \in found : i <= j

\* buildSearchBundle: the lines of every conversation and, for every
\* trigram, the ids of the conversations that have it, in payload order
buildSearchBundle(payloads) ==
    LET data == [p \in 1..Len(payloads) |->
                     buildSearchData(payloads[p].id, payloads[p].blocks)]
        ids == [p \in 1..Len(payloads) |-> payloads[p].id]
        at(id) == CHOOSE p \in 1..Len(payloads) : payloads[p].id = id
        gramIndex(gram) ==
            LET has(id) == gram \in data[at(id)].grams
            IN SelectSeq(ids, has)
    IN [grams |-> [gram \in UNION {data[p].grams : p \in 1..Len(payloads)} |->
                       gramIndex(gram)],
        linesByConversation |-> [id \in Range(ids) |-> data[at(id)].lines]]

\* Array.prototype.sort by lineNo (stable): the line goes behind every
\* line whose number is not greater
insertByLineNo(sorted, line) ==
    LET k == Cardinality({i \in 1..Len(sorted) :
                              sorted[i].loc.lineNo <= line.loc.lineNo})
    IN SubSeq(sorted, 1, k) \o <<line>> \o SubSeq(sorted, k + 1, Len(sorted))

RECURSIVE sortByLineNo(_)
sortByLineNo(lines) ==
    IF lines = <<>> THEN <<>>
    ELSE insertByLineNo(sortByLineNo(SubSeq(lines, 1, Len(lines) - 1)), lines[Len(lines)])

blockKey(line) == <<line.loc.conversationId, line.loc.messageId, line.loc.blockIndex>>

\* buildIndexes
buildIndexes(bundle) ==
    LET buckets == [id \in DOMAIN bundle.linesByConversation |->
                        sortByLineNo(bundle.linesByConversation[id])]
        keys == UNION {{blockKey(line) : line \in Range(buckets[id])} :
                          id \in DOMAIN buckets}
        block(key) ==
            LET inBlock(line) == blockKey(line) = key
            IN sortByLineNo(SelectSeq(buckets[key[1]], inBlock))
    IN [ready |-> TRUE,
        postings |-> bundle.grams,
        lineBuckets |-> buckets,
        blockBuckets |-> [key \in keys |-> block(key)]]

intersectSets_KeepsFirst(a, b) == a

intersectSets(a, b) ==
    LET smaller == IF Len(a) < Len(b) THEN a ELSE b
        larger == IF Len(a) < Len(b) THEN b ELSE a
        has(value) == value \in Range(larger)
    IN SelectSeq(smaller, has)

\* performSearch lines 203-208: the loop over the query's trigrams, from
\* candidateIds (null when first) on; gone when performSearch returns []
RECURSIVE narrowCandidates(_, _, _, _)
narrowCandidates(postings, grams, first, candidateIds) ==
    IF grams = <<>> THEN [gone |-> FALSE, ids |-> candidateIds]
    ELSE IF Head(grams) \notin DOMAIN postings THEN [gone |-> TRUE, ids |-> <<>>]
    ELSE LET ids == postings[Head(grams)]
             next == IF first THEN ids ELSE intersectSets(candidateIds, ids)
         IN IF next = <<>> THEN [gone |-> TRUE, ids |-> <<>>]
            ELSE narrowCandidates(postings, Tail(grams), FALSE, next)

\* buildSnippet line 240; index counts from 0
contextBefore(block, index) ==
    IF index > 0 THEN slice(block, Max(0, index - 2), index) ELSE <<>>

\* buildSnippet line 241
contextAfter(block, index) == slice(block, index + 1, index + 3)

buildSnippet(w, line, start, length) ==
    LET block == IF blockKey(line) \in DOMAIN w.blockBuckets
                 THEN w.blockBuckets[blockKey(line)] ELSE <<>>
        at == {i \in 1..Len(block) : block[i].loc.lineNo = line.loc.lineNo}
        index == IF at = {} THEN -1 ELSE (CHOOSE i \in at : \A j \in at : i <= j) - 1
        texts(entries) == [i \in 1..Len(entries) |-> entries[i].text]
    IN [before |-> slice(line.text, 0, start),
        match |-> slice(line.text, start, start + length),
        after |-> slice(line.text, start + length, Len(line.text)),
        contextBefore |-> texts(contextBefore(block, index)),
        contextAfter |-> texts(contextAfter(block, index))]

\* performSearch lines 213-230 for one candidate: a hit for every line of
\* the conversation that has the needle
hitsIn(w, conversationId, rawNeedle) ==
    LET lines == IF conversationId \in DOMAIN w.lineBuckets
                 THEN w.lineBuckets[conversationId] ELSE <<>>
        loweredNeedle == toLocaleLowerCase(rawNeedle)
        idx(line) == indexOf(toLocaleLowerCase(line.text), loweredNeedle)
        found(line) == idx(line) # -1
        hit(line) == [conversationId |-> conversationId,
                      messageId |-> line.loc.messageId,
                      blockIndex |-> line.loc.blockIndex,
                      lineNo |-> line.loc.lineNo,
                      snippet |-> buildSnippet(w, line, idx(line), Len(rawNeedle))]
        matching == SelectSeq(lines, found)
    IN [i \in 1..Len(matching) |-> hit(matching[i])]

\* performSearch: the candidates it ends with and the hits it returns; the
\* two loops stop as soon as limit hits are there, which leaves the first
\* limit hits of all
performSearch(w, query, limit) ==
    LET normalized == normalizeSearchText(query)
        grams == buildTrigrams(query)
        narrowed == narrowCandidates(w.postings, grams, TRUE, <<>>)
        rawNeedle == trim(query)
        all == Flatten([c \in 1..Len(narrowed.ids) |-> hitsIn(w, narrowed.ids[c], rawNeedle)])
    IN IF ~w.ready \/ Len(normalized) < 3 \/ grams = <<>> \/ narrowed.gone
       THEN [candidates |-> <<>>, hits |-> <<>>]
       ELSE [candidates |-> narrowed.ids, hits |-> slice(all, 0, limit)]

\* onmessage lines 160-164
WorkerInit(payloads) ==
    /\ result.pc = "none"
    /\ worker' = buildIndexes(buildSearchBundle(payloads))
    /\ UNCHANGED <<besidesSearcher, result>>

\* onmessage lines 166-170
WorkerSearch(query, limit) ==
    /\ result.pc = "none"
    /\ LET found == performSearch(worker, query, limit)
       IN result' = [pc |-> "posted", query |-> query, limit |-> limit,
                     candidates |-> found.candidates, hits |-> found.hits]
    /\ UNCHANGED <<besidesSearcher, worker>>

\* the page takes the response
ResultTaken ==
    /\ result.pc = "posted"
    /\ result' = NoResult
    /\ UNCHANGED <<besidesSearcher, worker>>

InitSearch ==
    /\ Idle
    /\ path = <<>>
    /\ verdict = NoVerdict
    /\ raw = NoGraph
    /\ converted = NotConverted
    /\ archive = NoArchive
    /\ assets = NoAssets
    /\ walk = NoWalk
    /\ stamps = NoStamps
    /\ stamped = NotStamped
    /\ store = EmptyStore
    /\ op = NoOp
    /\ request = NoRequest
    /\ report = NoReport
    /\ modal = NoModal
    /\ jobs = <<>>
    /\ worker = NoWorker
    /\ result = NoResult
    /\ mergedIndex = NoMerge
    /\ kept = NoKept
    /\ span = NoSpan
    /\ segmented = NoSegments
    /\ extraction = NoExtraction
    /\ zips = NoZips
    /\ assetDb = NoAssetDb

NextSearch ==
    \/ \E payloads \in PayloadLists : WorkerInit(payloads)
    \/ \E query \in Queries, limit \in Limits : WorkerSearch(query, limit)
    \/ ResultTaken

SpecSearch == InitSearch /\ [][NextSearch]_vars

-----------------------------------------------------------------------------
(* Properties of the search worker                                         *)

Answered == result.pc = "posted" /\ worker.ready

QueryGrams == Range(buildTrigrams(result.query))

IndexedIds == UNION {Range(worker.postings[gram]) : gram \in DOMAIN worker.postings}

\* the conversations every trigram of the query is posted for
PostedForAll ==
    {id \in IndexedIds :
        \A gram \in QueryGrams :
            gram \in DOMAIN worker.postings /\ id \in Range(worker.postings[gram])}

\* C19: performSearch returns no hits when the normalized query has fewer
\* than 3 characters or a trigram of the query has no posting entry;
\* otherwise the candidate conversations are exactly the intersection of
\* the posting sets of all query trigrams, and every hit belongs to a
\* candidate conversation.
C19_CandidatesAreIntersection ==
    Answered =>
        IF \/ Len(normalizeSearchText(result.query)) < 3
           \/ \E gram \in QueryGrams : gram \notin DOMAIN worker.postings
        THEN result.hits = <<>>
        ELSE /\ Range(result.candidates) = PostedForAll
             /\ \A h \in 1..Len(result.hits) :
                    result.hits[h].conversationId \in PostedForAll

\* a query of two trigrams posted for different conversations has narrowed
\* the candidates to one conversation and found a hit there
C19_Witness ==
    /\ Answered
    /\ Cardinality(QueryGrams) >= 2
    /\ \A gram \in QueryGrams : gram \in DOMAIN worker.postings
    /\ \E gram \in QueryGrams : Range(worker.postings[gram]) # PostedForAll
    /\ result.hits # <<>>

\* a query with a trigram nobody has is answered with no hits
C19_WitnessNoPosting ==
    /\ Answered
    /\ Len(normalizeSearchText(result.query)) >= 3
    /\ \E gram \in QueryGrams : gram \notin DOMAIN worker.postings
    /\ \E gram \in QueryGrams : gram \in DOMAIN worker.postings
    /\ result.hits = <<>>

\* the lines of the hit's conversation at the hit's location
LinesAt(hit) ==
    IF hit.conversationId \in DOMAIN worker.lineBuckets
    THEN {line \in Range(worker.lineBuckets[hit.conversationId]) :
              /\ line.loc.messageId = hit.messageId
              /\ line.loc.blockIndex = hit.blockIndex
              /\ line.loc.lineNo = hit.lineNo}
    ELSE {}

\* the text of the line of the hit's block with the given number, if any
BlockText(hit, lineNo) ==
    LET there == {line \in Range(worker.lineBuckets[hit.conversationId]) :
                      /\ line.loc.messageId = hit.messageId
                      /\ line.loc.blockIndex = hit.blockIndex
                      /\ line.loc.lineNo = lineNo}
    IN IF there = {} THEN <<>> ELSE <<(CHOOSE line \in there : TRUE).text>>

Needle == toLocaleLowerCase(trim(result.query))

\* the hit is at a line of a candidate that has the query, whatever the
\* case
HitAtMatchingLine(hit) ==
    /\ hit.conversationId \in Range(result.candidates)
    /\ \E line \in LinesAt(hit) : indexOf(toLocaleLowerCase(line.text), Needle) # -1

\* before, match and after make up the line
SnippetSplitsLine(hit) ==
    \E line \in LinesAt(hit) :
        hit.snippet.before \o hit.snippet.match \o hit.snippet.after = line.text

\* match is the occurrence of the query
MatchIsOccurrence(hit) == toLocaleLowerCase(hit.snippet.match) = Needle

\* at most two lines of context on each side, the lines of the same block
\* right before and right after the hit line
ContextIsAdjacent(hit) ==
    /\ hit.snippet.contextBefore =
           BlockText(hit, hit.lineNo - 2) \o BlockText(hit, hit.lineNo - 1)
    /\ hit.snippet.contextAfter =
           BlockText(hit, hit.lineNo + 1) \o BlockText(hit, hit.lineNo + 2)

\* C20: every search hit points at a search line of a candidate
\* conversation that contains the query as a case-insensitive substring;
\* its before + match + after equals that line's text with match being the
\* matched occurrence of the query; contextBefore and contextAfter each
\* hold at most two lines, taken from the same block immediately before
\* and after the hit line in line order; and at most limit hits are
\* returned.
C20_HitsAreWellFormed ==
    Answered =>
        /\ Len(result.hits) <= result.limit
        /\ \A h \in 1..Len(result.hits) :
               /\ HitAtMatchingLine(result.hits[h])
               /\ SnippetSplitsLine(result.hits[h])
               /\ MatchIsOccurrence(result.hits[h])
               /\ ContextIsAdjacent(result.hits[h])

\* C20 without the clause on match: location, split, context and limit
HitsAreWellFormedButMatch ==
    Answered =>
        /\ Len(result.hits) <= result.limit
        /\ \A h \in 1..Len(result.hits) :
               /\ HitAtMatchingLine(result.hits[h])
               /\ SnippetSplitsLine(result.hits[h])
               /\ ContextIsAdjacent(result.hits[h])

\* the clause on match holds for every line without U+0130 and every query
\* without it
MatchIsOccurrenceWithoutDottedI ==
    Answered /\ DottedCapitalI \notin Range(result.query) =>
        \A h \in 1..Len(result.hits) :
            (\A line \in LinesAt(result.hits[h]) : DottedCapitalI \notin Range(line.text))
                => MatchIsOccurrence(result.hits[h])

\* a hit in the fourth line of a block, with two of the three lines before
\* it as context, and a result cut at the limit
HitsWitnessContext ==
    /\ Answered
    /\ \E h \in 1..Len(result.hits) :
           /\ result.hits[h].lineNo = 3
           /\ Len(result.hits[h].snippet.contextBefore) = 2
    /\ Len(result.hits) = result.limit

-----------------------------------------------------------------------------
\* nothing has run yet
Quiet ==
    /\ Idle
    /\ path = <<>>
    /\ verdict = NoVerdict
    /\ raw = NoGraph
    /\ converted = NotConverted
    /\ archive = NoArchive
    /\ assets = NoAssets
    /\ AtRest

-----------------------------------------------------------------------------
(* mergeSummaries: the server index and the local index become the list    *)
(* the sidebar shows.  A summary is its id, its last_message_time, its     *)
(* pinned flag and its title, which here tells the index it came from.     *)

SummaryIds == {IdA, IdB, IdA2}

Summaries(title) ==
    [id : SummaryIds, last_message_time : 1..MaxTime, pinned : BOOLEAN, title : {title}]

\* the indexes of at most MaxIndex summaries with distinct ids
Indexes(title) ==
    {index \in UNION {[1..n -> Summaries(title)] : n \in 0..MaxIndex} :
        \A i, j \in 1..Len(index) : index[i].id = index[j].id => i = j}

PinnedIdSets == SUBSET {IdA, IdB}

\* new Map(entries.map((summary) => [summary.id, summary])): the keys in
\* the order they were first set, each with the value set last
summaryMap(index) ==
    LET firstAt(i) == \A j \in 1..(i - 1) : index[j].id # index[i].id
        lastOf(id) == CHOOSE i \in 1..Len(index) :
                          /\ index[i].id = id
                          /\ \A j \in (i + 1)..Len(index) : index[j].id # id
        firsts == SelectSeq([i \in 1..Len(index) |-> i], firstAt)
    IN [i \in 1..Len(firsts) |-> index[lastOf(index[firsts[i]].id)]]

\* Map.prototype.get; <<>> is undefined
mapEntry(map, id) ==
    LET has(entry) == entry.id = id
    IN SelectSeq(map, has)

shouldUseLocal_Always(serverEntry, localEntry) == localEntry # <<>>

\* shouldUseLocal
shouldUseLocal(serverEntry, localEntry) ==
    IF localEntry # <<>> /\ serverEntry = <<>> THEN TRUE
    ELSE IF localEntry = <<>> THEN FALSE
    ELSE IF serverEntry = <<>> THEN TRUE
    ELSE IF localEntry[1].last_message_time > serverEntry[1].last_message_time THEN TRUE
    ELSE IF localEntry[1].last_message_time < serverEntry[1].last_message_time THEN FALSE
    ELSE TRUE

\* chooseWinner
chooseWinner(serverEntry, localEntry) ==
    IF serverEntry = <<>> /\ localEntry = <<>> THEN <<>>
    ELSE IF shouldUseLocal(serverEntry, localEntry) THEN localEntry
    ELSE serverEntry

\* Array.prototype.sort with b.last_message_time - a.last_message_time
\* (stable): the entry goes behind every entry that is not older
insertByTime(sorted, entry) ==
    LET k == Cardinality({i \in 1..Len(sorted) :
                              sorted[i].last_message_time >= entry.last_message_time})
    IN SubSeq(sorted, 1, k) \o <<entry>> \o SubSeq(sorted, k + 1, Len(sorted))

RECURSIVE sortByTime(_)
sortByTime(entries) ==
    IF entries = <<>> THEN <<>>
    ELSE insertByTime(sortByTime(SubSeq(entries, 1, Len(entries) - 1)),
                      entries[Len(entries)])

\* sortSummaries
sortSummaries(entries) ==
    LET isPinned(entry) == entry.pinned
        isOther(entry) == ~entry.pinned
    IN sortByTime(SelectSeq(entries, isPinned)) \o sortByTime(SelectSeq(entries, isOther))

\* mergeSummaries
mergeSummaries(server, local, pinnedIds) ==
    LET serverMap == summaryMap(server)
        localMap == summaryMap(local)
        keys == [i \in 1..(Len(serverMap) + Len(localMap)) |->
                     IF i <= Len(serverMap) THEN serverMap[i].id
                     ELSE localMap[i - Len(serverMap)].id]
        firstAt(i) == \A j \in 1..(i - 1) : keys[j] # keys[i]
        ids == SelectSeq([i \in 1..Len(keys) |-> i], firstAt)
        entryFor(id) ==
            LET serverEntry == mapEntry(serverMap, id)
                localEntry == mapEntry(localMap, id)
                winner == chooseWinner(serverEntry, localEntry)
                pinnedSource ==
                    \/ winner[1].id \in pinnedIds
                    \/ localEntry # <<>> /\ localEntry[1].pinned
                    \/ winner[1].pinned
            IN IF winner = <<>> THEN <<>>
               ELSE <<[winner[1] EXCEPT !.pinned = pinnedSource]>>
    IN sortSummaries(Flatten([i \in 1..Len(ids) |-> entryFor(keys[ids[i]])]))

\* the mergedIndex index is computed from the two indexes
MergeIndexes ==
    /\ mergedIndex.pc = "none"
    /\ \E server \in Indexes("server"), local \in Indexes("local"),
          pinnedIds \in PinnedIdSets :
           mergedIndex' = [pc |-> "done", server |-> server, local |-> local,
                           pinnedIds |-> pinnedIds,
                           out |-> mergeSummaries(server, local, pinnedIds)]
    /\ UNCHANGED besidesMerger

\* the indexes change: the next merge starts from new ones
IndexesChange ==
    /\ mergedIndex.pc = "done"
    /\ mergedIndex' = NoMerge
    /\ UNCHANGED besidesMerger

InitMerge == Quiet

NextMerge ==
    \/ MergeIndexes
    \/ IndexesChange

SpecMerge == InitMerge /\ [][NextMerge]_vars

-----------------------------------------------------------------------------
(* Properties of mergeSummaries                                            *)

IdsOf(index) == {index[i].id : i \in 1..Len(index)}

EntryOf(index, id) == index[CHOOSE i \in 1..Len(index) : index[i].id = id]

\* the entry of the mergedIndex list is the given entry, but for its pinned flag
SameBut(entry, from) == [entry EXCEPT !.pinned = from.pinned] = from

\* C21: mergeSummaries returns exactly one entry for each id in the union
\* of the server and local indexes; for an id present in both, the entry
\* with the latest last_message_time is chosen; all pinned entries precede
\* all unpinned entries, and within each group entries are ordered by
\* last_message_time descending.
C21_MergedIndexIsUnionNewestFirst ==
    mergedIndex.pc = "done" =>
        LET out == mergedIndex.out
            both == IdsOf(mergedIndex.server) \cap IdsOf(mergedIndex.local)
        IN /\ IdsOf(out) = IdsOf(mergedIndex.server) \cup IdsOf(mergedIndex.local)
           /\ \A i, j \in 1..Len(out) : out[i].id = out[j].id => i = j
           /\ \A id \in IdsOf(out) \ both :
                  \/ /\ id \in IdsOf(mergedIndex.server)
                     /\ SameBut(EntryOf(out, id), EntryOf(mergedIndex.server, id))
                  \/ /\ id \in IdsOf(mergedIndex.local)
                     /\ SameBut(EntryOf(out, id), EntryOf(mergedIndex.local, id))
           /\ \A id \in both :
                  LET s == EntryOf(mergedIndex.server, id)
                      l == EntryOf(mergedIndex.local, id)
                      e == EntryOf(out, id)
                  IN /\ SameBut(e, s) \/ SameBut(e, l)
                     /\ e.last_message_time >= s.last_message_time
                     /\ e.last_message_time >= l.last_message_time
           /\ \A i, j \in 1..Len(out) :
                  i < j =>
                      /\ out[j].pinned => out[i].pinned
                      /\ out[i].pinned = out[j].pinned =>
                             out[i].last_message_time >= out[j].last_message_time

\* an id in both indexes whose server entry is newer, in a mergedIndex list with
\* a pinned entry that is older than an unpinned one behind it
C21_Witness ==
    /\ mergedIndex.pc = "done"
    /\ \E id \in IdsOf(mergedIndex.server) \cap IdsOf(mergedIndex.local) :
           EntryOf(mergedIndex.server, id).last_message_time
               > EntryOf(mergedIndex.local, id).last_message_time
    /\ Len(mergedIndex.out) >= 3
    /\ \E i, j \in 1..Len(mergedIndex.out) :
           /\ i < j
           /\ mergedIndex.out[i].pinned /\ ~mergedIndex.out[j].pinned
           /\ mergedIndex.out[i].last_message_time < mergedIndex.out[j].last_message_time

-----------------------------------------------------------------------------
(* The payloads both importers keep: summary, conversation and search      *)
(* lines of one conversation.  Headless they sit in the merged map and go  *)
(* through writeDataset and loadExistingDataset between runs; in the       *)
(* browser every importZips call (here of one conversation) saves them to  *)
(* the index, conversations and searchLines stores, each under its own     *)
(* key.                                                                    *)

PayloadConvs == [id : {IdA, IdB, IdA2}, time : 1..MaxTime, blocks : StoreTexts]

\* datasetImporter.ts lines 113-133, importer lines 173-191: the payload
\* of one converted conversation
buildPayload(conv, order) ==
    LET data == buildSearchData(conv.id, conv.blocks)
    IN [summary |-> [id |-> conv.id, last_message_time |-> conv.time],
        conversation |-> [id |-> conv.id, last_message_time |-> conv.time,
                          blocks |-> conv.blocks],
        searchLines |-> data.lines,
        grams |-> data.grams,
        mappingNodeCount |-> 1,
        importOrder |-> order]

\* what shouldReplace, isNewerSummary and the clone id assignment read of
\* a payload
Fields(payload) ==
    [id |-> payload.conversation.id, time |-> payload.summary.last_message_time,
     nodes |-> payload.mappingNodeCount, body |-> "x",
     importOrder |-> payload.importOrder]

\* clonePayloadWithId on the whole ServerConversationPayload
cloneServerPayloadWithId(payload, newId) ==
    [payload EXCEPT
        !.conversation = [@ EXCEPT !.id = newId],
        !.summary = [@ EXCEPT !.id = newId],
        !.searchLines = [i \in 1..Len(@) |->
                            [@[i] EXCEPT !.loc = [@ EXCEPT !.conversationId = newId]]]]

cloneImportPayloadWithId_KeepsLines(payload, nextId) ==
    [payload EXCEPT
        !.summary = [@ EXCEPT !.id = nextId],
        !.conversation = [@ EXCEPT !.id = nextId]]

\* cloneImportPayloadWithId
cloneImportPayloadWithId(payload, nextId) ==
    [payload EXCEPT
        !.summary = [@ EXCEPT !.id = nextId],
        !.conversation = [@ EXCEPT !.id = nextId],
        !.searchLines = [i \in 1..Len(@) |->
                            [@[i] EXCEPT !.loc = [@ EXCEPT !.conversationId = nextId]]]]

\* the merged map of the headless importer, keyed by what it was set with
MergedKeys(merged) == {merged[i].key : i \in 1..Len(merged)}

MergedSet(merged, key, payload) ==
    IF key \in MergedKeys(merged)
    THEN [i \in 1..Len(merged) |->
              IF merged[i].key = key THEN [key |-> key, payload |-> payload] ELSE merged[i]]
    ELSE Append(merged, [key |-> key, payload |-> payload])

MergedGet(merged, key) ==
    LET has(entry) == entry.key = key
    IN SelectSeq(merged, has)

\* one run of either importer starts
KeepBegin ==
    /\ kept.pc = "none"
    /\ \E importer \in {"headless", "interactive"}, mode \in {"upsert", "clone"} :
           kept' = [pc |-> "open", target |-> importer, mode |-> mode,
                    merged |-> <<>>, tracker |-> EmptyMap, order |-> 0,
                    index |-> EmptyMap, conversations |-> EmptyMap,
                    searchLines |-> EmptyMap, renamed |-> {}, count |-> 0]
    /\ UNCHANGED besidesKeeper

\* importDatasets lines 105-141 for one conversation of a source
HeadlessKeep ==
    /\ kept.pc = "open" /\ kept.target = "headless"
    /\ kept.count < MaxIngests
    /\ \E conv \in PayloadConvs :
           LET payload == buildPayload(conv, kept.order)
           IN IF kept.mode = "clone"
              THEN LET r == ensureClonePayloadId(Fields(payload), MergedKeys(kept.merged),
                                                 kept.tracker)
                       cloned == IF r.payload.id = conv.id THEN payload
                                 ELSE cloneServerPayloadWithId(payload, r.payload.id)
                   IN kept' = [kept EXCEPT
                                   !.merged = MergedSet(@, cloned.conversation.id, cloned),
                                   !.tracker = r.tracker,
                                   !.renamed = IF r.payload.id = conv.id THEN @
                                               ELSE @ \cup {r.payload.id},
                                   !.order = @ + 1, !.count = @ + 1]
              ELSE LET existing == MergedGet(kept.merged, conv.id)
                   IN kept' = [kept EXCEPT
                                   !.merged =
                                       IF \/ existing = <<>>
                                          \/ shouldReplace(Fields(existing[1].payload),
                                                           Fields(payload))
                                       THEN MergedSet(@, conv.id, payload) ELSE @,
                                   !.order = @ + 1, !.count = @ + 1]
    /\ UNCHANGED besidesKeeper

\* writeDataset lines 369-381 and, in the next run, loadExistingDataset
\* lines 474-490 with importDatasets lines 81-96: the summaries of
\* conversations.json, each with the conversation.json of its directory and
\* its lines of the search index
HeadlessReload ==
    /\ kept.pc = "open" /\ kept.target = "headless"
    /\ kept.merged # <<>>
    /\ LET written == kept.merged
           summaries == [i \in 1..Len(written) |-> written[i].payload.summary]
           hasFile(summary) ==
               \E i \in 1..Len(written) : written[i].payload.conversation.id = summary.id
           fileOf(id) ==
               written[CHOOSE i \in 1..Len(written) :
                           /\ written[i].payload.conversation.id = id
                           /\ \A j \in (i + 1)..Len(written) :
                                  written[j].payload.conversation.id # id].payload
           loadable == SelectSeq(summaries, hasFile)
           loaded == [i \in 1..Len(loadable) |->
                         [key |-> loadable[i].id,
                          payload |-> [summary |-> loadable[i],
                                       conversation |-> fileOf(loadable[i].id).conversation,
                                       searchLines |-> fileOf(loadable[i].id).searchLines,
                                       grams |-> fileOf(loadable[i].id).grams,
                                       mappingNodeCount |-> 1,
                                       importOrder |-> i - 1]]]
       IN kept' = [kept EXCEPT
                       !.merged = loaded,
                       !.tracker = IF kept.mode = "clone"
                                   THEN buildCloneTracker(MergedKeys(loaded)) ELSE EmptyMap,
                       !.order = Len(loaded)]
    /\ UNCHANGED besidesKeeper

\* saveConversationRecord and saveSearchData of one payload
SavePayload(k, payload) ==
    [k EXCEPT
        !.index = Put(@, payload.summary.id, payload.summary),
        !.conversations = Put(@, payload.conversation.id, payload.conversation),
        !.searchLines = Put(@, payload.conversation.id, payload.searchLines)]

\* importZips lines 408-419 and 476-486 for a bundle of one conversation
BrowserKeep ==
    /\ kept.pc = "open" /\ kept.target = "interactive"
    /\ kept.count < MaxIngests
    /\ \E conv \in PayloadConvs :
           LET payload == buildPayload(conv, 0)
               usedConversationIds == DOMAIN kept.index
           IN IF kept.mode = "clone"
              THEN LET r == ensureClonePayloadIdForLocal(
                                Fields(payload), usedConversationIds,
                                buildCloneTracker(usedConversationIds))
                       cloned == IF r.payload.id = conv.id THEN payload
                                 ELSE cloneImportPayloadWithId(payload, r.payload.id)
                   IN kept' = [SavePayload(kept, cloned) EXCEPT
                                   !.renamed = IF r.payload.id = conv.id THEN @
                                               ELSE @ \cup {r.payload.id},
                                   !.count = @ + 1]
              ELSE LET existing ==
                           IF conv.id \in DOMAIN kept.index
                           THEN [time |-> kept.index[conv.id].last_message_time, nodes |-> 1]
                           ELSE Undefined
                   IN kept' = [(IF isNewerSummary(Fields(payload), existing)
                                THEN SavePayload(kept, payload) ELSE kept) EXCEPT
                                   !.count = @ + 1]
    /\ UNCHANGED besidesKeeper

InitKeep == Quiet

NextKeep ==
    \/ KeepBegin
    \/ HeadlessKeep
    \/ HeadlessReload
    \/ BrowserKeep

SpecKeep == InitKeep /\ [][NextKeep]_vars

-----------------------------------------------------------------------------
(* Properties of the kept payloads                                         *)

LinesCarry(lines, id) == \A i \in 1..Len(lines) : lines[i].loc.conversationId = id

\* C22: for every stored conversation payload, summary.id, conversation.id
\* and the loc.conversationId of each of its search lines are equal; after
\* a clone rename all location references in the search lines carry the new
\* id and none still carries the original id.
C22_PayloadIdsAgree ==
    kept.pc = "open" =>
        /\ \A i \in 1..Len(kept.merged) :
               LET payload == kept.merged[i].payload
               IN /\ payload.summary.id = kept.merged[i].key
                  /\ payload.conversation.id = kept.merged[i].key
                  /\ LinesCarry(payload.searchLines, kept.merged[i].key)
        /\ DOMAIN kept.index = DOMAIN kept.conversations
        /\ DOMAIN kept.searchLines = DOMAIN kept.conversations
        /\ \A id \in DOMAIN kept.conversations :
               /\ kept.index[id].id = id
               /\ kept.conversations[id].id = id
               /\ LinesCarry(kept.searchLines[id], id)

\* a payload renamed by the headless clone mode is kept with its lines
C22_Witness ==
    /\ kept.pc = "open" /\ kept.target = "headless"
    /\ \E i \in 1..Len(kept.merged) :
           /\ kept.merged[i].key \in kept.renamed
           /\ kept.merged[i].payload.searchLines # <<>>

\* a payload renamed twice over by the browser's clone mode is stored with
\* its lines
C22_WitnessBrowser ==
    /\ kept.pc = "open" /\ kept.target = "interactive"
    /\ Cardinality(kept.renamed) >= 2
    /\ \A id \in kept.renamed : kept.searchLines[id] # <<>>

-----------------------------------------------------------------------------
(* splitMarkdownIntoBlocks.  A text is a sequence of characters over the   *)
(* letter a, the space, the newline and Fence, which stands for three      *)
(* backticks in a row (written with quotes here); private-use characters, which                       *)
(* sanitizeRenderedMarkdown strips first, are not among them.  A block     *)
(* carries, besides its text, the lines that were joined to it.            *)

Fence == "'''"

SpanChars == {"a", Space, Newline, Fence}

SpanTexts == UNION {[1..n -> SpanChars] : n \in 0..MaxSpanLen}

\* replace(/\n{3,}/g, '\n\n')
RECURSIVE collapseNewlines(_)
collapseNewlines(s) ==
    IF s = <<>> THEN <<>>
    ELSE IF Len(s) >= 3 /\ s[1] = Newline /\ s[2] = Newline /\ s[3] = Newline
    THEN LET RECURSIVE skip(_)
             skip(t) == IF t # <<>> /\ Head(t) = Newline THEN skip(Tail(t)) ELSE t
         IN <<Newline, Newline>> \o collapseNewlines(skip(s))
    ELSE <<Head(s)>> \o collapseNewlines(Tail(s))

sanitizeRenderedMarkdown(input) == trim(collapseNewlines(input))

\* text.split(/\r?\n/)
RECURSIVE linesFromText(_)
linesFromText(text) ==
    LET breaks == {i \in 1..Len(text) : text[i] = Newline}
    IN IF breaks = {} THEN <<text>>
       ELSE LET first == CHOOSE i \in breaks : \A j \in breaks : i <= j
            IN <<SubSeq(text, 1, first - 1)>>
                   \o linesFromText(SubSeq(text, first + 1, Len(text)))

\* line.match(/^'''(.*)$/), with backticks for the quotes
fenceMatch(line) == line # <<>> /\ line[1] = Fence

TextLang == <<"t", "e", "x", "t">>

\* fenceLang || 'text'
langOr(fenceLang) == IF fenceLang = <<>> THEN TextLang ELSE fenceLang

codeBlock(fenceLang, fenceBuffer) ==
    [type |-> "code", lang |-> langOr(fenceLang), text |-> joinLines(fenceBuffer),
     lines |-> fenceBuffer]

markdownBlock(buffer) ==
    [type |-> "markdown", lang |-> <<>>, text |-> joinLines(buffer), lines |-> buffer]

\* the loop body of splitMarkdownIntoBlocks, lines 389-410
scanLine(st, line) ==
    IF fenceMatch(line)
    THEN IF st.inFence
         THEN [st EXCEPT !.blocks = Append(@, codeBlock(st.fenceLang, st.fenceBuffer)),
                         !.fenceBuffer = <<>>, !.fenceLang = <<>>, !.inFence = FALSE]
         ELSE [st EXCEPT !.blocks = IF st.buffer # <<>>
                                    THEN Append(@, markdownBlock(st.buffer)) ELSE @,
                         !.buffer = <<>>, !.inFence = TRUE,
                         !.fenceLang = trim(Tail(line))]
    ELSE IF st.inFence THEN [st EXCEPT !.fenceBuffer = Append(@, line)]
    ELSE [st EXCEPT !.buffer = Append(@, line)]

RECURSIVE scanLines(_, _)
scanLines(st, lines) ==
    IF lines = <<>> THEN st ELSE scanLines(scanLine(st, Head(lines)), Tail(lines))

splitMarkdownIntoBlocks(text) ==
    LET sanitizedText == sanitizeRenderedMarkdown(text)
        st == scanLines([blocks |-> <<>>, buffer |-> <<>>, inFence |-> FALSE,
                         fenceLang |-> <<>>, fenceBuffer |-> <<>>],
                        linesFromText(sanitizedText))
        withFence == IF st.fenceBuffer # <<>>
                     THEN Append(st.blocks, codeBlock(st.fenceLang, st.fenceBuffer))
                     ELSE st.blocks
        withBuffer == IF st.buffer # <<>>
                      THEN Append(withFence, markdownBlock(st.buffer))
                      ELSE withFence
    IN IF sanitizedText = <<>> THEN <<>>
       ELSE IF withBuffer = <<>>
       THEN <<[type |-> "markdown", lang |-> <<>>, text |-> sanitizedText,
               lines |-> linesFromText(sanitizedText)]>>
       ELSE withBuffer

\* a text span is split
SplitSpan ==
    /\ span.pc = "none"
    /\ \E text \in SpanTexts :
           span' = [pc |-> "done", text |-> text, blocks |-> splitMarkdownIntoBlocks(text)]
    /\ UNCHANGED besidesSpanner

\* the next span
NextSpan ==
    /\ span.pc = "done"
    /\ span' = NoSpan
    /\ UNCHANGED besidesSpanner

InitSplit == Quiet

NextSplit ==
    \/ SplitSpan
    \/ NextSpan

SpecSplit == InitSplit /\ [][NextSplit]_vars

-----------------------------------------------------------------------------
(* Properties of splitMarkdownIntoBlocks                                   *)

SpanLines == linesFromText(sanitizeRenderedMarkdown(span.text))

\* the fence lines before line i
FencesBefore(i) == {j \in 1..(i - 1) : fenceMatch(SpanLines[j])}

\* line i lies after an opening fence and before its closing fence
InsideFence(i) == Cardinality(FencesBefore(i)) % 2 = 1

\* the lines that are no fences, in input order, each with the kind of
\* block it belongs in
ExpectedLines ==
    LET plain(i) == ~fenceMatch(SpanLines[i])
        plainLines == SelectSeq([i \in 1..Len(SpanLines) |-> i], plain)
    IN [k \in 1..Len(plainLines) |->
           [type |-> IF InsideFence(plainLines[k]) THEN "code" ELSE "markdown",
            line |-> SpanLines[plainLines[k]]]]

\* the lines of the blocks, in block order, each with the type of its block
EmittedLines ==
    Flatten([b \in 1..Len(span.blocks) |->
                [l \in 1..Len(span.blocks[b].lines) |->
                    [type |-> span.blocks[b].type, line |-> span.blocks[b].lines[l]]]])

\* the language of every code block is the one of its opening fence: the
\* k-th code block belongs to the (2k-1)-th fence line
LanguagesFollowFences ==
    LET isFence(i) == fenceMatch(SpanLines[i])
        fences == SelectSeq([i \in 1..Len(SpanLines) |-> i], isFence)
        isCode(b) == span.blocks[b].type = "code"
        codes == SelectSeq([b \in 1..Len(span.blocks) |-> b], isCode)
    IN \A k \in 1..Len(codes) :
           /\ 2 * k - 1 <= Len(fences)
           /\ span.blocks[codes[k]].lang =
                  langOr(trim(Tail(SpanLines[fences[2 * k - 1]])))

Split == span.pc = "done" /\ sanitizeRenderedMarkdown(span.text) # <<>>

\* C24: a line beginning with a triple-backtick fence toggles between
\* markdown and code state and is itself emitted in no block; every other
\* line ends up in exactly one block, in input order, in a code block if
\* and only if it lies after an opening fence and before its closing fence
\* or the end of the text; a code block's language is the token after its
\* opening fence, or text when there is none.
C24_LinesSplitByFences ==
    Split =>
        /\ EmittedLines = ExpectedLines
        /\ \A b \in 1..Len(span.blocks) :
               span.blocks[b].text = joinLines(span.blocks[b].lines)
        /\ LanguagesFollowFences

\* C24 for every text that is more than one fence line
LinesSplitByFencesButLoneFence ==
    Split /\ ~(Len(SpanLines) = 1 /\ fenceMatch(SpanLines[1])) => 
        /\ EmittedLines = ExpectedLines
        /\ \A b \in 1..Len(span.blocks) :
               span.blocks[b].text = joinLines(span.blocks[b].lines)
        /\ LanguagesFollowFences

\* a text with a line before a fenced block with a language
SplitWitness ==
    /\ Split
    /\ Len(span.blocks) = 2
    /\ span.blocks[1].type = "markdown"
    /\ span.blocks[2].type = "code" /\ span.blocks[2].lang = <<"a">>
    /\ span.blocks[2].lines # <<>>

-----------------------------------------------------------------------------
(* convertParts and buildDetails.  A raw content has a content_type, a     *)
(* thoughts array, a parts array and a text, each of which may be missing; *)
(* a part is a string or an object with content_type, text,                *)
(* metadata.summary and nested parts.  A missing string is <<>> and a      *)
(* present one <<text>>.  Reasoning texts are written with the letters q   *)
(* (a fragment of the thoughts array), r (the text of a part or content    *)
(* typed as reasoning) and s (a summary); every other text with the letter *)
(* a.  Asset, file and transcript parts, the tts text and the metadata of  *)
(* the message are left out.                                               *)

FragmentText == <<"q">>
ThoughtText == <<"r">>
SummaryText == <<"s">>
BodyText == <<"a">>

Optional(text) == {<<>>, <<text>>}

ThoughtTypes == {"thought", "thoughts"}

StringParts ==
    [kind : {"string"}, content_type : {"none"}, text : {<<BodyText>>},
     summary : {<<>>}, hasParts : {FALSE}, parts : {<<>>}]

BodyParts ==
    [kind : {"object"}, content_type : {"text", "code"}, text : Optional(BodyText),
     summary : {<<>>}, hasParts : {FALSE}, parts : {<<>>}]

ThoughtParts ==
    [kind : {"object"}, content_type : ThoughtTypes, text : Optional(ThoughtText),
     summary : Optional(SummaryText), hasParts : {FALSE}, parts : {<<>>}]

LeafParts == StringParts \cup BodyParts \cup ThoughtParts

NestingParts ==
    [kind : {"object"}, content_type : {"multimodal_text"}, text : {<<>>},
     summary : {<<>>}, hasParts : {TRUE},
     parts : UNION {[1..n -> LeafParts] : n \in 0..MaxNested}]
    \cup
    [kind : {"object"}, content_type : {"thoughts"}, text : Optional(ThoughtText),
     summary : {<<>>}, hasParts : {TRUE},
     parts : UNION {[1..n -> LeafParts] : n \in 0..MaxNested}]

RawParts == LeafParts \cup NestingParts

Fragments == [content : Optional(FragmentText), summary : Optional(SummaryText)]

RawContents ==
    [content_type : {"thoughts"}, thoughts : UNION {[1..n -> Fragments] : n \in 0..1},
     hasParts : {FALSE}, parts : {<<>>}, text : Optional(ThoughtText)]
    \cup
    [content_type : {"thoughts", "text"}, thoughts : {<<>>},
     hasParts : {TRUE}, parts : UNION {[1..n -> RawParts] : n \in 0..MaxParts},
     text : {<<>>}]
    \cup
    [content_type : {"text", "thinking"}, thoughts : {<<>>},
     hasParts : {FALSE}, parts : {<<>>},
     text : Optional(BodyText) \cup Optional(ThoughtText)]

\* the block list of every element, concatenated
RECURSIVE flatMap(_, _)
flatMap(Op(_), list) ==
    IF list = <<>> THEN <<>> ELSE Op(Head(list)) \o flatMap(Op, Tail(list))

\* the blocks of a part without nested parts, lines 313-315 and 324-374
convertLeaf(part) ==
    IF part.kind = "string"
    THEN IF trim(part.text[1]) # <<>> THEN splitMarkdownIntoBlocks(part.text[1]) ELSE <<>>
    ELSE IF part.content_type = "code"
    THEN <<[type |-> "code", lang |-> TextLang,
            text |-> IF part.text # <<>> THEN part.text[1] ELSE <<>>,
            lines |-> <<>>]>>
    ELSE IF part.text = <<>> \/ part.text[1] = <<>> THEN <<>>
    ELSE splitMarkdownIntoBlocks(part.text[1])

convertPart(part) ==
    IF part.hasParts /\ part.content_type = "multimodal_text"
    THEN flatMap(convertLeaf, part.parts)
    ELSE IF part.hasParts /\ part.parts # <<>> /\ part.content_type # "code"
    THEN flatMap(convertLeaf, part.parts)
    ELSE convertLeaf(part)

convertParts(content) ==
    IF content.hasParts THEN flatMap(convertPart, content.parts)
    ELSE IF content.text # <<>> /\ content.text[1] # <<>>
    THEN splitMarkdownIntoBlocks(content.text[1])
    ELSE <<>>

\* what one part adds to the bucket, lines 475-484
thinkingOfPart(part) ==
    IF part.kind = "string" THEN <<>>
    ELSE IF part.content_type \in ThoughtTypes
    THEN LET textCandidate == IF part.text # <<>> THEN part.text ELSE part.summary
             normalized == IF textCandidate = <<>> THEN <<>> ELSE trim(textCandidate[1])
         IN IF normalized # <<>> THEN <<normalized>> ELSE <<>>
    ELSE <<>>

collectThinkingFromLeaves(parts) == flatMap(thinkingOfPart, parts)

thinkingOfNesting(part) ==
    thinkingOfPart(part)
        \o (IF part.hasParts THEN collectThinkingFromLeaves(part.parts) ELSE <<>>)

collectThinkingFromParts(parts) == flatMap(thinkingOfNesting, parts)

\* the segment of one fragment of the thoughts array, lines 457-461
thinkingOfFragment(thought) ==
    LET candidate == IF thought.content # <<>> THEN thought.content ELSE thought.summary
        normalized == IF candidate = <<>> THEN <<>> ELSE trim(candidate[1])
    IN IF normalized # <<>> THEN <<normalized>> ELSE <<>>

\* segments.join('\n\n')
RECURSIVE joinSegments(_)
joinSegments(segments) ==
    IF Len(segments) = 1 THEN segments[1]
    ELSE segments[1] \o <<Newline, Newline>> \o joinSegments(Tail(segments))

\* <<>> for null
extractThinking(content) ==
    LET fromThoughts == IF content.content_type = "thoughts"
                        THEN flatMap(thinkingOfFragment, content.thoughts)
                        ELSE <<>>
        segments == IF content.hasParts /\ fromThoughts = <<>>
                    THEN collectThinkingFromParts(content.parts)
                    ELSE fromThoughts
    IN IF segments # <<>> THEN <<joinSegments(segments)>> ELSE <<>>

buildDetails(content) == [thinking |-> extractThinking(content)]

\* transformMessage turns the content of a message or of a variant into
\* blocks and details
SegmentMessage ==
    /\ segmented.pc = "none"
    /\ \E content \in RawContents :
           segmented' = [pc |-> "done", content |-> content,
                         blocks |-> convertParts(content),
                         details |-> buildDetails(content)]
    /\ UNCHANGED besidesSegmenter

\* the next message
NextMessage ==
    /\ segmented.pc = "done"
    /\ segmented' = NoSegments
    /\ UNCHANGED besidesSegmenter

InitSegment == Quiet

NextSegment ==
    \/ SegmentMessage
    \/ NextMessage

SpecSegment == InitSegment /\ [][NextSegment]_vars

-----------------------------------------------------------------------------
(* Properties of convertParts and buildDetails                             *)

BlockChars == UNION {Range(segmented.blocks[b].text) : b \in 1..Len(segmented.blocks)}

ThinkingChars ==
    IF segmented.details.thinking = <<>> THEN {}
    ELSE Range(segmented.details.thinking[1])

\* C23: text that comes from content or parts typed thinking, thought or
\* thoughts appears only in details.thinking and in no block of the
\* message.
C23_ReasoningInNoBlock ==
    segmented.pc = "done" => BlockChars \cap {"q", "r", "s"} = {}

\* the fragments of a thoughts array and the summaries are in no block
FragmentsInNoBlock ==
    segmented.pc = "done" => BlockChars \cap {"q", "s"} = {}

\* a thoughts array with a fragment goes to details.thinking
FragmentsInDetails ==
    segmented.pc = "done" /\ segmented.content.content_type = "thoughts"
        /\ segmented.content.thoughts # <<>>
        /\ segmented.content.thoughts[1].content # <<>>
    => "q" \in ThinkingChars

\* a part typed as reasoning whose text is both a block and the thinking
ReasoningRendered ==
    /\ segmented.pc = "done"
    /\ "r" \in BlockChars
    /\ "r" \in ThinkingChars

-----------------------------------------------------------------------------
(* extractConversationsFromChat and extractAssetsJson.  The sidecar is a   *)
(* sequence of characters; JsonData stands for the marker text             *)
(* var jsonData and AssetsJson for var assetsJson.  The embedded literals  *)
(* are well-formed JSON built of strings, arrays and objects.              *)

JsonData == "J"
AssetsJson == "A"
Quote == "\""
Comma == ","
Semicolon == ";"
Equals == "="

\* the contents of a JSON string: a letter, a bracket, a brace or an
\* escaped quote
StringItems == {<<"a">>, <<"[">>, <<"]">>, <<"{">>, <<"}">>, <<Backslash, Quote>>}

StringBodies == UNION {[1..n -> StringItems] : n \in 0..MaxStringLen}

JsonStrings == {<<Quote>> \o Flatten(body) \o <<Quote>> : body \in StringBodies}

JsonValues == JsonStrings \cup {<<"[", "]">>, <<"{", "}">>}

RECURSIVE joinWith(_, _)
joinWith(items, separator) ==
    IF items = <<>> THEN <<>>
    ELSE IF Len(items) = 1 THEN items[1]
    ELSE items[1] \o separator \o joinWith(Tail(items), separator)

\* what JSON.stringify writes for an array of graphs
JsonArrays ==
    {<<"[">> \o joinWith(elements, <<Comma>>) \o <<"]">> :
        elements \in UNION {[1..n -> JsonValues] : n \in 0..MaxElements}}

\* what JSON.stringify writes for an asset-pointer map
JsonObjects ==
    {<<"{", "}">>} \cup
    {<<"{">> \o key \o <<Colon>> \o value \o <<"}">> :
        key \in JsonStrings, value \in JsonValues}

Befores == {<<>>, <<"a">>}
Afters == {<<>>, <<Semicolon>>, <<Semicolon, "]">>, <<Semicolon, "}">>}

\* String.prototype.indexOf(needle, fromIndex)
indexOfFrom(s, needle, fromIndex) ==
    LET found == {i \in fromIndex..(Len(s) - 1) : s[i + 1] = needle}
    IN IF found = {} THEN -1 ELSE CHOOSE i \in found : \A j \in found : i <= j

\* the while loop of both extractors: the depth and the end it stops with
RECURSIVE scanDepth(_, _, _, _, _)
scanDepth(html, open, close, depth, end) ==
    IF end >= Len(html) THEN [depth |-> depth, end |-> end]
    ELSE LET char == html[end + 1]
             opened == IF char = open THEN depth + 1 ELSE depth
         IN IF char = close
            THEN IF opened - 1 = 0 THEN [depth |-> 0, end |-> end + 1]
                 ELSE scanDepth(html, open, close, opened - 1, end + 1)
            ELSE scanDepth(html, open, close, opened, end + 1)

\* JSON.parse accepts the text: the index after the value that starts at
\* index i, or 0 when there is none
RECURSIVE parseString(_, _)
parseString(s, i) ==
    IF i > Len(s) THEN 0
    ELSE IF s[i] = Quote THEN i + 1
    ELSE IF s[i] = Backslash THEN (IF i + 1 > Len(s) THEN 0 ELSE parseString(s, i + 2))
    ELSE parseString(s, i + 1)

RECURSIVE parseValue(_, _)
RECURSIVE parseElements(_, _)
RECURSIVE parseMembers(_, _)

parseValue(s, i) ==
    IF i > Len(s) THEN 0
    ELSE IF s[i] = Quote THEN parseString(s, i + 1)
    ELSE IF s[i] = "["
    THEN IF i + 1 <= Len(s) /\ s[i + 1] = "]" THEN i + 2 ELSE parseElements(s, i + 1)
    ELSE IF s[i] = "{"
    THEN IF i + 1 <= Len(s) /\ s[i + 1] = "}" THEN i + 2 ELSE parseMembers(s, i + 1)
    ELSE 0

parseElements(s, i) ==
    LET after == parseValue(s, i)
    IN IF after = 0 \/ after > Len(s) THEN 0
       ELSE IF s[after] = "]" THEN after + 1
       ELSE IF s[after] = Comma THEN parseElements(s, after + 1)
       ELSE 0

parseMembers(s, i) ==
    LET afterKey == IF i <= Len(s) /\ s[i] = Quote THEN parseString(s, i + 1) ELSE 0
        after == IF afterKey = 0 \/ afterKey > Len(s) \/ s[afterKey] # Colon THEN 0
                 ELSE parseValue(s, afterKey + 1)
    IN IF after = 0 \/ after > Len(s) THEN 0
       ELSE IF s[after] = "}" THEN after + 1
       ELSE IF s[after] = Comma THEN parseMembers(s, after + 1)
       ELSE 0

jsonParses(s) == s # <<>> /\ parseValue(s, 1) = Len(s) + 1

\* extractConversationsFromChat, character by character; [found |-> FALSE]
\* for null
sliceConversationsFromChat(html) ==
    LET markerIndex == indexOfFrom(html, JsonData, 0)
        braceIndex == indexOfFrom(html, "[", markerIndex)
        scan == scanDepth(html, "[", "]", 0, braceIndex)
        jsonString == slice(html, braceIndex, scan.end)
    IN IF markerIndex = -1 \/ braceIndex = -1 \/ scan.depth # 0 \/ ~jsonParses(jsonString)
       THEN [found |-> FALSE]
       ELSE [found |-> TRUE, json |-> jsonString]

\* extractAssetsJson, character by character; [found |-> FALSE] for the
\* empty map that stands for a failure
sliceAssetsJson(html) ==
    LET markerIndex == indexOfFrom(html, AssetsJson, 0)
        braceIndex == indexOfFrom(html, "{", markerIndex)
        scan == scanDepth(html, "{", "}", 0, braceIndex)
        jsonString == slice(html, braceIndex, scan.end)
    IN IF markerIndex = -1 \/ braceIndex = -1 \/ ~jsonParses(jsonString)
       THEN [found |-> FALSE]
       ELSE [found |-> TRUE, json |-> jsonString]

\* the sidecar of an archive is read for its graphs
ExtractConversations ==
    /\ extraction.pc = "none"
    /\ \E before \in Befores, literal \in JsonArrays, after \in Afters :
           LET html == before \o <<JsonData, Equals>> \o literal \o after
           IN extraction' = [pc |-> "graphs", literal |-> literal, html |-> html,
                             out |-> sliceConversationsFromChat(html)]
    /\ UNCHANGED besidesExtractor

\* the sidecar of an archive is read for its asset-pointer map
ExtractAssets ==
    /\ extraction.pc = "none"
    /\ \E before \in Befores, literal \in JsonObjects, after \in Afters :
           LET html == before \o <<AssetsJson, Equals>> \o literal \o after
           IN extraction' = [pc |-> "assets", literal |-> literal, html |-> html,
                             out |-> sliceAssetsJson(html)]
    /\ UNCHANGED besidesExtractor

\* the next sidecar
NextSidecar ==
    /\ extraction.pc # "none"
    /\ extraction' = NoExtraction
    /\ UNCHANGED besidesExtractor

InitExtract == Quiet

NextExtract ==
    \/ ExtractConversations
    \/ ExtractAssets
    \/ NextSidecar

SpecExtract == InitExtract /\ [][NextExtract]_vars

-----------------------------------------------------------------------------
(* Properties of the two extractors                                        *)

\* the characters inside the string literals of a well-formed text
RECURSIVE InStrings(_, _, _)
InStrings(s, i, inside) ==
    IF i > Len(s) THEN {}
    ELSE IF ~inside THEN InStrings(s, i + 1, s[i] = Quote)
    ELSE IF s[i] = Quote THEN InStrings(s, i + 1, FALSE)
    ELSE IF s[i] = Backslash THEN InStrings(s, i + 2, TRUE)
    ELSE {s[i]} \cup InStrings(s, i + 1, TRUE)

Extracted == extraction.pc # "none"

\* C25: brackets and braces inside JSON string literals do not change the
\* depth, so for every well-formed embedded literal the extracted slice is
\* exactly that literal.
C25_SliceIsTheLiteral ==
    Extracted => extraction.out.found /\ extraction.out.json = extraction.literal

\* C25 for literals whose strings hold none of the characters the
\* extractor counts
SliceIsTheLiteralWithoutBracketsInStrings ==
    /\ extraction.pc = "graphs"
           /\ InStrings(extraction.literal, 1, FALSE) \cap {"[", "]"} = {}
       => extraction.out.found /\ extraction.out.json = extraction.literal
    /\ extraction.pc = "assets"
           /\ InStrings(extraction.literal, 1, FALSE) \cap {"{", "}"} = {}
       => extraction.out.found /\ extraction.out.json = extraction.literal

\* whatever is returned is the literal
ExtractedIsTheLiteral ==
    Extracted /\ extraction.out.found => extraction.out.json = extraction.literal

\* every embedded literal is accepted by the model of JSON.parse
LiteralsParse == Extracted => jsonParses(extraction.literal)

\* a nested literal with a string is extracted
ExtractWitness ==
    /\ extraction.pc = "graphs"
    /\ extraction.out.found
    /\ Len(extraction.literal) >= 6
    /\ "{" \in InStrings(extraction.literal, 1, FALSE)

\* a string with a closing bracket ends the slice early
ExtractLost ==
    /\ extraction.pc = "graphs"
    /\ ~extraction.out.found
    /\ "]" \in InStrings(extraction.literal, 1, FALSE)

-----------------------------------------------------------------------------
(* parseExportZips with its progress notifications, called directly or in  *)
(* the import worker.  An archive either fails to unzip or holds a list of *)
(* raw conversations; a raw conversation is plain, refers to one asset     *)
(* (whose data is in the same archive, under the key of its id) or is      *)
(* broken (convertRawConversation returns null or its id is unsafe).  The  *)
(* listener is missing, returns or throws.  The extras, the generated      *)
(* assets and a failing read of the file are left out.                     *)

RawEntries ==
    [id : {IdA}, time : 1..MaxTime, kind : {"plain", "asset"}]
    \cup [id : {IdB}, time : {1}, kind : {"asset", "broken"}]

ZipFiles ==
    [unzips : {TRUE}, rawList : UNION {[1..n -> RawEntries] : n \in 0..MaxRaw}]
    \cup [unzips : {FALSE}, rawList : {<<>>}]

FileLists == UNION {[1..n -> ZipFiles] : n \in 1..MaxArchives}

Listeners == {"none", "returns", "throws"}

\* archiveIndex + 1 where the source has it
progressNote_ZeroBased(p, phase, conversationsTotal) ==
    [phase |-> phase,
     archiveIndex |-> p.archiveIndex,
     archivesTotal |-> Len(p.files),
     conversationsProcessed |-> p.conversationsProcessed,
     conversationsTotal |-> conversationsTotal,
     assetsProcessed |-> p.assetsProcessed]

\* the object handed to options.onProgress
progressNote(p, phase, conversationsTotal) ==
    [phase |-> phase,
     archiveIndex |-> p.archiveIndex + 1,
     archivesTotal |-> Len(p.files),
     conversationsProcessed |-> p.conversationsProcessed,
     conversationsTotal |-> conversationsTotal,
     assetsProcessed |-> p.assetsProcessed]

\* options.onProgress?.(note): in the worker the listener posts the note;
\* called directly, a listener that throws ends parseExportZips with its
\* exception
onProgress(p, note) ==
    IF p.viaWorker
    THEN [p EXCEPT !.notes = Append(@, note),
                   !.inbox = Append(@, [type |-> "progress", progress |-> note])]
    ELSE IF p.listener = "none" THEN p
    ELSE IF p.listener = "returns"
    THEN [p EXCEPT !.notes = Append(@, note), !.heard = Append(@, note)]
    ELSE [p EXCEPT !.notes = Append(@, note), !.heard = Append(@, note),
                   !.pc = "rejected"]

\* the state parseExportZips starts in, lines 93-99
parseStart(files, listener, viaWorker) ==
    [pc |-> "loop", files |-> files, listener |-> listener, viaWorker |-> viaWorker,
     archiveIndex |-> 0, next |-> 1, conversationsProcessed |-> 0, assetsProcessed |-> 0,
     mergedMap |-> <<>>, assetKeys |-> {}, order |-> 0, trail |-> <<>>,
     notes |-> <<>>, inbox |-> <<>>, heard |-> <<>>,
     bundle |-> [conversations |-> <<>>, assets |-> {}]]

\* lines 101-111
archiveStart(p) ==
    onProgress([p EXCEPT !.pc = "unzip", !.conversationsProcessed = 0,
                         !.assetsProcessed = 0, !.next = 1],
               progressNote([p EXCEPT !.conversationsProcessed = 0, !.assetsProcessed = 0],
                            "archive-start", 0))

\* lines 112-155
archiveUnzip(p) ==
    LET file == p.files[p.archiveIndex + 1]
    IN IF ~file.unzips \/ file.rawList = <<>>
       THEN [p EXCEPT !.pc = "loop", !.archiveIndex = @ + 1]
       ELSE onProgress([p EXCEPT !.pc = "convert"],
                       progressNote(p, "archive-conversations", Len(file.rawList)))

\* merged.set(conversation.id, payload) on a Map, which keeps the place of
\* a key it already has
mapSet(map, payload) ==
    IF \E i \in 1..Len(map) : map[i].id = payload.id
    THEN [i \in 1..Len(map) |-> IF map[i].id = payload.id THEN payload ELSE map[i]]
    ELSE Append(map, payload)

\* one round of the loop over rawList, lines 163-209
convertNext(p) ==
    LET file == p.files[p.archiveIndex + 1]
        rawEntry == file.rawList[p.next]
        payload == [id |-> rawEntry.id, time |-> rawEntry.time, nodes |-> 1,
                    importOrder |-> p.order,
                    assetKeys |-> IF rawEntry.kind = "asset" THEN {rawEntry.id} ELSE {}]
        existing == {i \in 1..Len(p.mergedMap) : p.mergedMap[i].id = rawEntry.id}
        replaces == existing = {}
                        \/ \E i \in existing : shouldReplace(p.mergedMap[i], payload)
        q == [p EXCEPT !.next = @ + 1,
                       !.order = @ + 1,
                       !.trail = Append(@, <<p.archiveIndex + 1, p.next>>),
                       !.mergedMap = IF replaces THEN mapSet(@, payload) ELSE @,
                       !.conversationsProcessed = @ + 1]
    IN IF rawEntry.kind = "broken" THEN [p EXCEPT !.next = @ + 1]
       ELSE onProgress(q, progressNote(q, "archive-conversations", Len(file.rawList)))

\* lines 211-237
collectAssets(p) ==
    LET file == p.files[p.archiveIndex + 1]
        entryMap == {file.rawList[i].id : i \in {j \in 1..Len(file.rawList) :
                                                     file.rawList[j].kind = "asset"}}
        wanted == UNION {p.mergedMap[i].assetKeys : i \in 1..Len(p.mergedMap)}
        added == (wanted \cap entryMap) \ p.assetKeys
        q == [p EXCEPT !.pc = "complete", !.assetKeys = @ \cup added,
                       !.assetsProcessed = Cardinality(added)]
    IN onProgress(q, progressNote(q, "archive-assets", Len(file.rawList)))

\* lines 238-247
archiveComplete(p) ==
    LET file == p.files[p.archiveIndex + 1]
        q == [p EXCEPT !.pc = "loop", !.archiveIndex = @ + 1]
    IN onProgress(q, progressNote(p, "archive-complete", Len(file.rawList)))

\* lines 249-255; in the worker the bundle is posted
parseReturn(p) ==
    LET bundle == [conversations |-> p.mergedMap, assets |-> p.assetKeys]
    IN IF p.viaWorker
       THEN [p EXCEPT !.pc = "posted",
                      !.inbox = Append(@, [type |-> "done", bundle |-> bundle])]
       ELSE [p EXCEPT !.pc = "returned", !.bundle = bundle]

\* the step parseExportZips takes next
parseStep(p) ==
    IF p.pc = "loop"
    THEN IF p.archiveIndex < Len(p.files) THEN archiveStart(p) ELSE parseReturn(p)
    ELSE IF p.pc = "unzip" THEN archiveUnzip(p)
    ELSE IF p.pc = "convert"
    THEN IF p.next <= Len(p.files[p.archiveIndex + 1].rawList)
         THEN convertNext(p) ELSE collectAssets(p)
    ELSE IF p.pc = "complete" THEN archiveComplete(p)
    ELSE p

\* parseExportZips run to its end
RECURSIVE parseToEnd(_)
parseToEnd(p) ==
    IF p.pc \in {"loop", "unzip", "convert", "complete"}
    THEN parseToEnd(parseStep(p)) ELSE p

\* worker.onmessage on the page, part_005 lines 51-66
clientMessage(p) ==
    LET message == Head(p.inbox)
        q == [p EXCEPT !.inbox = Tail(@)]
    IN IF message.type = "progress"
       THEN IF p.listener = "none" THEN q
            ELSE [q EXCEPT !.heard = Append(@, message.progress)]
       ELSE [q EXCEPT !.pc = "returned", !.bundle = message.bundle]

Parsing == zips.pc \in {"loop", "unzip", "convert", "complete"}

\* parseExportZipsInWorker is called with files and a listener
ParseBegin ==
    /\ zips.pc = "none"
    /\ \E files \in FileLists, listener \in Listeners, viaWorker \in BOOLEAN :
           zips' = parseStart(files, listener, viaWorker)
    /\ UNCHANGED besidesParser

ArchiveStart ==
    /\ zips.pc = "loop" /\ zips.archiveIndex < Len(zips.files)
    /\ zips' = archiveStart(zips)
    /\ UNCHANGED besidesParser

ArchiveUnzip ==
    /\ zips.pc = "unzip"
    /\ zips' = archiveUnzip(zips)
    /\ UNCHANGED besidesParser

ConvertNext ==
    /\ zips.pc = "convert"
    /\ zips.next <= Len(zips.files[zips.archiveIndex + 1].rawList)
    /\ zips' = convertNext(zips)
    /\ UNCHANGED besidesParser

CollectAssets ==
    /\ zips.pc = "convert"
    /\ zips.next > Len(zips.files[zips.archiveIndex + 1].rawList)
    /\ zips' = collectAssets(zips)
    /\ UNCHANGED besidesParser

ArchiveComplete ==
    /\ zips.pc = "complete"
    /\ zips' = archiveComplete(zips)
    /\ UNCHANGED besidesParser

ParseReturn ==
    /\ zips.pc = "loop" /\ zips.archiveIndex = Len(zips.files)
    /\ zips' = parseReturn(zips)
    /\ UNCHANGED besidesParser

\* the page takes the next message of the worker
ClientMessage ==
    /\ zips.pc \notin {"none", "returned", "rejected"}
    /\ zips.inbox # <<>>
    /\ zips' = clientMessage(zips)
    /\ UNCHANGED besidesParser

\* the import is over
ParseOver ==
    /\ zips.pc \in {"returned", "rejected"}
    /\ zips' = NoZips
    /\ UNCHANGED besidesParser

InitParse == Quiet

NextParse ==
    \/ ParseBegin
    \/ ArchiveStart
    \/ ArchiveUnzip
    \/ ConvertNext
    \/ CollectAssets
    \/ ArchiveComplete
    \/ ParseReturn
    \/ ClientMessage
    \/ ParseOver

SpecParse == InitParse /\ [][NextParse]_vars

-----------------------------------------------------------------------------
(* Properties of the progress notifications                                *)

Phases == <<"archive-start", "archive-conversations", "archive-assets", "archive-complete">>

PhaseRank(phase) == CHOOSE r \in 1..4 : Phases[r] = phase

\* the notifications of archive k in the order they were emitted
NotesOf(k) ==
    LET ofArchive(note) == note.archiveIndex = k
    IN SelectSeq(zips.notes, ofArchive)

PhaseCount(notesOfArchive, phase) ==
    Cardinality({i \in 1..Len(notesOfArchive) : notesOfArchive[i].phase = phase})

\* archive-start, then archive-conversations with a count that grows up to
\* the total, then archive-assets, then archive-complete
InPhaseOrder(notesOfArchive) ==
    notesOfArchive # <<>> =>
        /\ notesOfArchive[1].phase = "archive-start"
        /\ PhaseCount(notesOfArchive, "archive-start") = 1
        /\ PhaseCount(notesOfArchive, "archive-assets") <= 1
        /\ PhaseCount(notesOfArchive, "archive-complete") <= 1
        /\ \A i \in 1..(Len(notesOfArchive) - 1) :
               LET this == notesOfArchive[i]
                   that == notesOfArchive[i + 1]
               IN /\ PhaseRank(this.phase) <= PhaseRank(that.phase)
                  /\ PhaseRank(that.phase) <= PhaseRank(this.phase) + 1
                  /\ this.phase = "archive-conversations"
                         /\ that.phase = "archive-conversations"
                     => this.conversationsProcessed <= that.conversationsProcessed
        /\ \A i \in 1..Len(notesOfArchive) :
               notesOfArchive[i].phase = "archive-conversations"
                   => notesOfArchive[i].conversationsProcessed
                          <= notesOfArchive[i].conversationsTotal

\* C26: progress notifications are emitted only at the four phase
\* boundaries and in a fixed order per archive: archive-start first, then
\* archive-conversations notifications whose conversationsProcessed never
\* decreases and never exceeds conversationsTotal, then archive-assets, then
\* archive-complete; archives are reported in list order, with archiveIndex
\* running from 1 to archivesTotal.
C26_ProgressInPhaseOrder ==
    zips.pc # "none" =>
        /\ \A i \in 1..Len(zips.notes) :
               /\ zips.notes[i].phase \in Range(Phases)
               /\ zips.notes[i].archivesTotal = Len(zips.files)
               /\ zips.notes[i].archiveIndex \in 1..Len(zips.files)
        /\ \A i \in 1..(Len(zips.notes) - 1) :
               /\ zips.notes[i].archiveIndex <= zips.notes[i + 1].archiveIndex
               /\ zips.notes[i + 1].archiveIndex <= zips.notes[i].archiveIndex + 1
        /\ zips.notes # <<>> => zips.notes[1].archiveIndex = 1
        /\ \A k \in 1..Len(zips.files) : InPhaseOrder(NotesOf(k))
        /\ zips.pc \in {"posted", "returned"} /\ (zips.viaWorker \/ zips.listener # "none")
               => \A k \in 1..Len(zips.files) : NotesOf(k) # <<>>

\* an archive that is skipped is reported by its archive-start alone
SkippedArchiveOnlyStarts ==
    zips.pc \in {"posted", "returned"} =>
        \A k \in 1..Len(zips.files) :
            (~zips.files[k].unzips \/ zips.files[k].rawList = <<>>) => Len(NotesOf(k)) <= 1

\* two archives reported to the end, the second with two conversations
C26_Witness ==
    /\ zips.pc = "returned"
    /\ ~zips.viaWorker
    /\ Len(zips.files) = 2
    /\ Len(NotesOf(1)) >= 4
    /\ Len(NotesOf(2)) = 6
    /\ NotesOf(2)[4].conversationsProcessed = 2

\* a skipped archive before a reported one
C26_WitnessSkipped ==
    /\ zips.pc = "returned"
    /\ Len(zips.files) = 2
    /\ Len(NotesOf(1)) = 1
    /\ Len(NotesOf(2)) >= 4

\* what parseExportZips does with the same files and no listener
Silent == parseToEnd(parseStart(zips.files, "none", FALSE))

\* C27: for the same archive list parseExportZips processes archives and
\* conversations in the same order and returns the same bundle whether or
\* not a progress listener is supplied and whatever the listener does; a
\* listener can neither block nor alter the import.
C27_ListenerIsAdvisory ==
    /\ zips.pc = "returned" => zips.bundle = Silent.bundle /\ zips.trail = Silent.trail
    /\ zips.pc # "rejected"

\* C27 for every listener that returns, and for every listener behind the
\* worker
ListenerIsAdvisoryUnlessItThrowsDirectly ==
    /\ zips.pc = "returned" => zips.bundle = Silent.bundle /\ zips.trail = Silent.trail
    /\ zips.pc # "none" /\ (zips.viaWorker \/ zips.listener # "throws")
           => zips.pc # "rejected"

\* a listener that throws behind the worker, and the import returned what
\* it returns without a listener
ListenerWitness ==
    /\ zips.pc = "returned"
    /\ zips.viaWorker /\ zips.listener = "throws"
    /\ Len(zips.heard) >= 4
    /\ Len(zips.bundle.conversations) = 2

\* a listener that throws ended the import
ListenerRejects ==
    /\ zips.pc = "rejected"
    /\ zips.listener = "throws" /\ ~zips.viaWorker

-----------------------------------------------------------------------------
(* The search worker over texts that normalizeSearchText changes: a line   *)
(* that ends with the letter e and U+0301, a line with two spaces in a     *)
(* row, upper case, and blocks whose texts are joined for the trigrams.    *)

GramTexts ==
    { << << <<"a", "b", "e", CombiningAcute>> >> >>,
      << << <<"a", Space, Space, "b">>, <<"B", "a", "b">> >> >>,
      << << <<"a", "b">> >>, << <<"e", "a">> >> >> }

GramPayloadLists ==
    {ps \in UNION {[1..n -> [id : SearchIds, blocks : GramTexts]] : n \in 0..MaxPayloads} :
        \A i, j \in 1..Len(ps) : ps[i].id = ps[j].id => i = j}

GramQueryChars == {"a", "b", "B", "e", CombiningAcute, Space}

GramQueries == UNION {[1..n -> GramQueryChars] : n \in 0..MaxQueryLen}

InitGrams == Quiet

NextGrams ==
    \/ \E payloads \in GramPayloadLists : WorkerInit(payloads)
    \/ \E query \in GramQueries : WorkerSearch(query, DefaultLimit)
    \/ ResultTaken

SpecGrams == InitGrams /\ [][NextGrams]_vars

\* the conversations with an indexed line that contains the trimmed query,
\* compared as the literal scan compares
HoldingQuery ==
    {id \in DOMAIN worker.lineBuckets :
        \E l \in 1..Len(worker.lineBuckets[id]) :
            indexOf(toLocaleLowerCase(worker.lineBuckets[id][l].text), Needle) # -1}

\* the conversations with such a line that normalize('NFKC') leaves as it is
HoldingQueryInStableLine ==
    {id \in DOMAIN worker.lineBuckets :
        \E l \in 1..Len(worker.lineBuckets[id]) :
            LET text == worker.lineBuckets[id][l].text
            IN /\ indexOf(toLocaleLowerCase(text), Needle) # -1
               /\ normalizeNFKC(text) = text}

LongEnough == Answered /\ Len(normalizeSearchText(result.query)) >= 3

\* C28: for every query whose normalized form has at least 3 characters,
\* every conversation that has an indexed search line containing the
\* trimmed query as a case-insensitive substring is in the candidate set.
C28_NoFalseNegatives ==
    LongEnough => HoldingQuery \subseteq Range(result.candidates)

\* C28 for the lines that normalize('NFKC') leaves as they are
NoFalseNegativesInStableLines ==
    LongEnough => HoldingQueryInStableLine \subseteq Range(result.candidates)

\* a query with two spaces and an upper-case letter finds its line
GramsWitness ==
    /\ LongEnough
    /\ result.query = <<"a", Space, Space, "B">>
    /\ HoldingQuery # {}
    /\ result.hits # <<>>

\* a line that holds the query and whose conversation is no candidate
GramsMissed ==
    /\ LongEnough
    /\ HoldingQuery # {}
    /\ result.candidates = <<>>

-----------------------------------------------------------------------------
(* lib/db.ts: saveAsset, removeAssetsForOwner, getAssetUrl,                *)
(* revokeAssetUrls and purgeDatabase over the stores assets and            *)
(* assetOwners and the module's assetUrlCache.  Every function creates its *)
(* transaction when it is called; the transactions, which all touch the    *)
(* store assets or the store assetOwners, run in the order they were       *)
(* created, each with the continuation of its function.  A blob is told    *)
(* from another by its size; url 0 is no url; last is the transaction that *)
(* ran last and whether an asset had every owner before it.                *)

BlobKeys == {"k1", "k2"}
BlobOwners == {IdA, IdB}
BlobSizes == {1, 2}

\* the calls of getAssetUrl that wait for their transaction
Reading(b) == {c \in 1..Len(b.calls) : b.calls[c].pc = "reading"}

\* saveAsset, lines 230-243
saveAsset(b, key, size, ownerId) ==
    [b EXCEPT !.assets[key] = IF @ = 0 \/ @ # size THEN size ELSE @,
              !.assetOwners = @ \cup {<<key, ownerId>>}]

\* revokeAssetUrlForKey, lines 270-276
revokeAssetUrlForKey(b, key) ==
    LET cached == b.assetUrlCache[key]
    IN IF cached # 0
       THEN [b EXCEPT !.urls[cached].revoked = TRUE, !.assetUrlCache[key] = 0]
       ELSE b

\* never deletes the blob
dropLink_KeepsBlob(b, link) ==
    [b EXCEPT !.assetOwners = @ \ {link}]

\* the loop body of removeAssetsForOwner, lines 254-259
dropLink(b, link) ==
    LET dropped == [b EXCEPT !.assetOwners = @ \ {link}]
        remaining == Cardinality({other \in dropped.assetOwners : other[1] = link[1]})
    IN IF remaining = 0
       THEN revokeAssetUrlForKey([dropped EXCEPT !.assets[link[1]] = 0], link[1])
       ELSE dropped

\* removeAssetsForOwner, lines 246-262
RECURSIVE dropLinks(_, _)
dropLinks(b, links) ==
    IF links = {} THEN b
    ELSE LET link == CHOOSE l \in links : TRUE
         IN dropLinks(dropLink(b, link), links \ {link})

removeAssetsForOwner(b, ownerId) ==
    dropLinks(b, {link \in b.assetOwners : link[2] = ownerId})

\* getAssetUrl after its read, lines 282-286
finishGetAssetUrl(b, call) ==
    LET key == b.calls[call].key
        record == b.assets[key]
        url == Len(b.urls) + 1
    IN IF record = 0
       THEN [b EXCEPT !.calls[call].pc = "done"]
       ELSE [b EXCEPT !.urls = Append(@, [key |-> key, blob |-> record, revoked |-> FALSE]),
                      !.assetUrlCache[key] = url,
                      !.calls[call].pc = "done",
                      !.calls[call].url = url]

\* revokeAssetUrls, lines 289-294
revokeAssetUrls(b) ==
    [b EXCEPT !.urls = [u \in 1..Len(b.urls) |->
                           IF \E key \in BlobKeys : b.assetUrlCache[key] = u
                           THEN [b.urls[u] EXCEPT !.revoked = TRUE] ELSE b.urls[u]],
              !.assetUrlCache = [key \in BlobKeys |-> 0]]

\* what a transaction does when its turn has come
runTransaction(b, tx) ==
    IF tx.type = "get" THEN finishGetAssetUrl(b, tx.call)
    ELSE IF tx.type = "save" THEN saveAsset(b, tx.key, tx.size, tx.ownerId)
    ELSE IF tx.type = "remove" THEN removeAssetsForOwner(b, tx.ownerId)
    ELSE IF tx.type = "clear-assets" THEN [b EXCEPT !.assets = [key \in BlobKeys |-> 0]]
    ELSE [b EXCEPT !.assetOwners = {}]

Transaction(type, key, size, ownerId, call) ==
    [type |-> type, key |-> key, size |-> size, ownerId |-> ownerId, call |-> call]

Room(n) == Len(assetDb.queue) + n <= MaxQueue

\* getAssetUrl up to its await, lines 278-281
GetAssetUrl ==
    /\ Len(assetDb.calls) < MaxCalls
    /\ \E key \in BlobKeys :
           LET call == Len(assetDb.calls) + 1
               cached == assetDb.assetUrlCache[key]
           IN IF cached # 0
              THEN assetDb' = [assetDb EXCEPT !.calls = Append(@,
                                 [key |-> key, pc |-> "done", url |-> cached,
                                  with |-> Reading(assetDb)])]
              ELSE /\ Room(1)
                   /\ assetDb' = [assetDb EXCEPT
                          !.calls = Append(@, [key |-> key, pc |-> "reading", url |-> 0,
                                               with |-> Reading(assetDb)]),
                          !.queue = Append(@, Transaction("get", key, 0, IdA, call))]
    /\ UNCHANGED besidesBlobber

\* saveAsset is called
SaveAsset ==
    /\ Room(1)
    /\ \E key \in BlobKeys, size \in BlobSizes, ownerId \in BlobOwners :
           assetDb' = [assetDb EXCEPT !.queue = Append(@, Transaction("save", key, size, ownerId, 0))]
    /\ UNCHANGED besidesBlobber

\* removeAssetsForOwner is called, by deleteConversation (line 215)
RemoveAssetsForOwner ==
    /\ Room(1)
    /\ \E ownerId \in BlobOwners :
           assetDb' = [assetDb EXCEPT
                        !.queue = Append(@, Transaction("remove", "k1", 0, ownerId, 0))]
    /\ UNCHANGED besidesBlobber

\* purgeDatabase, lines 460-476: the urls are revoked at once, the stores
\* are cleared by one transaction each
PurgeDatabase ==
    /\ Room(2)
    /\ assetDb' = [revokeAssetUrls(assetDb) EXCEPT
                    !.queue = @ \o <<Transaction("clear-assets", "k1", 0, IdA, 0),
                                     Transaction("clear-assetOwners", "k1", 0, IdA, 0)>>]
    /\ UNCHANGED besidesBlobber

\* the oldest transaction runs
RunTransaction ==
    /\ assetDb.queue # <<>>
    /\ LET tx == Head(assetDb.queue)
           shared == \E key \in BlobKeys :
                         {<<key, owner>> : owner \in BlobOwners} \subseteq assetDb.assetOwners
       IN assetDb' = [runTransaction([assetDb EXCEPT !.queue = Tail(@)], tx) EXCEPT
                       !.last = [type |-> tx.type, shared |-> shared]]
    /\ UNCHANGED besidesBlobber

\* the page is loaded anew: the urls and the cache of the old page are gone
Reload ==
    /\ assetDb.queue = <<>>
    /\ assetDb.calls # <<>>
    /\ assetDb' = [assetDb EXCEPT !.assetUrlCache = [key \in BlobKeys |-> 0],
                              !.urls = <<>>, !.calls = <<>>]
    /\ UNCHANGED besidesBlobber

InitBlobs == Quiet

NextBlobs ==
    \/ GetAssetUrl
    \/ SaveAsset
    \/ RemoveAssetsForOwner
    \/ PurgeDatabase
    \/ RunTransaction
    \/ Reload

SpecBlobs == InitBlobs /\ [][NextBlobs]_vars

-----------------------------------------------------------------------------
(* Properties of the asset stores and of the url cache                     *)

StoredKeys == {key \in BlobKeys : assetDb.assets[key] # 0}

LinkedKeys == {link[1] : link \in assetDb.assetOwners}

\* purgeDatabase has cleared one of the two stores
HalfPurged ==
    assetDb.queue # <<>> /\ Head(assetDb.queue).type = "clear-assetOwners"

\* C29: after any sequence of saveAsset and deleteConversation or
\* removeAssetsForOwner calls an asset blob is stored if and only if at
\* least one owner link references its key; an asset shared by two owners
\* survives the deletion of one and is removed with the last.
C29_BlobStoredIffLinked ==
    ~HalfPurged => StoredKeys = LinkedKeys

\* an asset of two owners is still stored after one of them was removed
C29_Witness ==
    /\ assetDb.last.type = "remove" /\ assetDb.last.shared
    /\ \E key \in StoredKeys : Cardinality({link \in assetDb.assetOwners : link[1] = key}) = 1

\* the last owner of an asset was removed and the blob with it
C29_WitnessLast ==
    /\ assetDb.last.type = "remove" /\ ~assetDb.last.shared
    /\ StoredKeys = {} /\ assetDb.assetOwners = {}
    /\ \E u \in 1..Len(assetDb.urls) : assetDb.urls[u].revoked

LiveUrls == {u \in 1..Len(assetDb.urls) : ~assetDb.urls[u].revoked}

Concurrent(c, d) == c \in assetDb.calls[d].with \/ d \in assetDb.calls[c].with

\* C30: at most one object URL is live per asset key, every URL that was
\* created is either the one cached for its key or has been revoked, and
\* concurrent getAssetUrl calls for the same key return the same URL.
C30_UrlCacheNeitherLeaksNorStale ==
    /\ \A u, v \in LiveUrls : assetDb.urls[u].key = assetDb.urls[v].key => u = v
    /\ \A u \in LiveUrls : assetDb.assetUrlCache[assetDb.urls[u].key] = u
    /\ \A c, d \in 1..Len(assetDb.calls) :
           /\ Concurrent(c, d)
           /\ assetDb.calls[c].key = assetDb.calls[d].key
           /\ assetDb.calls[c].pc = "done" /\ assetDb.calls[d].pc = "done"
           => assetDb.calls[c].url = assetDb.calls[d].url

\* a cached url is live, and calls that do not overlap leave one live url
\* per key
CachedIsLive ==
    \A key \in BlobKeys :
        assetDb.assetUrlCache[key] # 0 =>
            /\ assetDb.assetUrlCache[key] \in LiveUrls
            /\ assetDb.urls[assetDb.assetUrlCache[key]].key = key

\* the cache holds the url of a blob that is no longer the stored one
UrlStale ==
    \E key \in BlobKeys :
        /\ assetDb.assetUrlCache[key] # 0
        /\ assetDb.queue = <<>>
        /\ assetDb.assets[key] # 0
        /\ assetDb.urls[assetDb.assetUrlCache[key]].blob # assetDb.assets[key]

\* two overlapping calls for one key were given different urls
UrlLeaked ==
    \E c, d \in 1..Len(assetDb.calls) :
        /\ Concurrent(c, d)
        /\ assetDb.calls[c].key = assetDb.calls[d].key
        /\ assetDb.calls[c].url # 0 /\ assetDb.calls[d].url # 0
        /\ assetDb.calls[c].url # assetDb.calls[d].url
        /\ assetDb.calls[c].url \in LiveUrls /\ assetDb.calls[d].url \in LiveUrls

====
